---- MODULE Spec2Model ----
(***************************************************************************)
(* Enrichment pipeline of ai-sales-list-enrichment: Phase A/B/C, the       *)
(* TaskHandler, the Store (BigQuery upsert by website) and the batch       *)
(* processors.                                                             *)
(*                                                                         *)
(* Text is a sequence of one-character tokens.  ASCII characters stand for *)
(* themselves; a Japanese character is written "uXXXX", its code point.    *)
(* A Python value that may be missing is a record [k, v]: k = "absent"     *)
(* (no such key), "null" (None) or "str".  Long free text (overview_text,  *)
(* services_text, ...) is kept by its character counts only.               *)
(***************************************************************************)
EXTENDS Integers, Sequences, FiniteSets, TLC

----------------------------------------------------------------------------
(* Python values *)

Absent == [k |-> "absent", v |-> <<>>]

None == [k |-> "null", v |-> <<>>]

Str(s) == [k |-> "str", v |-> s]

\* Python truthiness of an optional string: present, not None, not "".
Truthy(f) == f.k = "str" /\ f.v # <<>>

\* dict.get(key, default) for a string default: the key's value when the key is
\* present (None included), else the default.
Get(f, default) == IF f.k = "absent" THEN default ELSE f

Min(S) == CHOOSE m \in S : \A n \in S : m <= n

Max(S) == CHOOSE m \in S : \A n \in S : m >= n

\* sub in s
Contains(s, sub) ==
  \E i \in 1..(Len(s) - Len(sub) + 1) : SubSeq(s, i, i + Len(sub) - 1) = sub

StartsWith(s, pre) == Len(s) >= Len(pre) /\ SubSeq(s, 1, Len(pre)) = pre

Whitespace == {" ", "\t", "\n"}

\* the characters of [\x00-\x08\x0b\x0c\x0e-\x1f\x7f]; "ctl" stands for any of them
ControlChars == {"ctl"}

Uppers ==
  << "A", "B", "C", "D", "E", "F", "G", "H", "I", "J", "K", "L", "M",
     "N", "O", "P", "Q", "R", "S", "T", "U", "V", "W", "X", "Y", "Z" >>

Lowers ==
  << "a", "b", "c", "d", "e", "f", "g", "h", "i", "j", "k", "l", "m",
     "n", "o", "p", "q", "r", "s", "t", "u", "v", "w", "x", "y", "z" >>

LowerChar(c) ==
  IF \E i \in 1..Len(Uppers) : Uppers[i] = c
  THEN Lowers[CHOOSE i \in 1..Len(Uppers) : Uppers[i] = c]
  ELSE c

\* str.lower()
Lower(s) == [i \in 1..Len(s) |-> LowerChar(s[i])]

\* str.strip()
RECURSIVE LStrip(_)
LStrip(s) == IF s # <<>> /\ Head(s) \in Whitespace THEN LStrip(Tail(s)) ELSE s

RECURSIVE RStrip(_)
RStrip(s) ==
  IF s # <<>> /\ s[Len(s)] \in Whitespace THEN RStrip(SubSeq(s, 1, Len(s) - 1)) ELSE s

Strip(s) == RStrip(LStrip(s))

\* re.sub(r'<[^>]+>', '', text): a tag starts at a "<" that is followed by at least
\* one character other than ">" and then by a ">"
TagStarts(s) ==
  {i \in 1..(Len(s) - 2) :
     s[i] = "<" /\ s[i + 1] # ">" /\ \E j \in (i + 2)..Len(s) : s[j] = ">"}

TagEnd(s, i) == Min({j \in (i + 2)..Len(s) : s[j] = ">"})

RECURSIVE RemoveTags(_)
CutTag(s, i) == SubSeq(s, 1, i - 1) \o RemoveTags(SubSeq(s, TagEnd(s, i) + 1, Len(s)))

RemoveTags(s) == IF TagStarts(s) = {} THEN s ELSE CutTag(s, Min(TagStarts(s)))

\* re.sub(r'\s+', ' ', text): the first character of a run of whitespace becomes a
\* space, the others go
MarkWhitespace(s) ==
  [i \in 1..Len(s) |->
     IF s[i] \notin Whitespace THEN s[i]
     ELSE IF i > 1 /\ s[i - 1] \in Whitespace THEN "drop" ELSE " "]

NotDropped(c) == c # "drop"

CollapseWhitespace(s) == SelectSeq(MarkWhitespace(s), NotDropped)

IsControl(c) == c \in ControlChars

NotControl(c) == ~IsControl(c)

sanitize_text(text) ==
  Strip(CollapseWhitespace(SelectSeq(RemoveTags(text), NotControl)))

----------------------------------------------------------------------------
(* utils/extractors.py *)

PREFECTURES ==
  << <<"u5317", "u6D77", "u9053">>,
     <<"u9752", "u68EE", "u770C">>,
     <<"u5CA9", "u624B", "u770C">>,
     <<"u5BAE", "u57CE", "u770C">>,
     <<"u79CB", "u7530", "u770C">>,
     <<"u5C71", "u5F62", "u770C">>,
     <<"u798F", "u5CF6", "u770C">>,
     <<"u8328", "u57CE", "u770C">>,
     <<"u6803", "u6728", "u770C">>,
     <<"u7FA4", "u99AC", "u770C">>,
     <<"u57FC", "u7389", "u770C">>,
     <<"u5343", "u8449", "u770C">>,
     <<"u6771", "u4EAC", "u90FD">>,
     <<"u795E", "u5948", "u5DDD", "u770C">>,
     <<"u65B0", "u6F5F", "u770C">>,
     <<"u5BCC", "u5C71", "u770C">>,
     <<"u77F3", "u5DDD", "u770C">>,
     <<"u798F", "u4E95", "u770C">>,
     <<"u5C71", "u68A8", "u770C">>,
     <<"u9577", "u91CE", "u770C">>,
     <<"u5C90", "u961C", "u770C">>,
     <<"u9759", "u5CA1", "u770C">>,
     <<"u611B", "u77E5", "u770C">>,
     <<"u4E09", "u91CD", "u770C">>,
     <<"u6ECB", "u8CC0", "u770C">>,
     <<"u4EAC", "u90FD", "u5E9C">>,
     <<"u5927", "u962A", "u5E9C">>,
     <<"u5175", "u5EAB", "u770C">>,
     <<"u5948", "u826F", "u770C">>,
     <<"u548C", "u6B4C", "u5C71", "u770C">>,
     <<"u9CE5", "u53D6", "u770C">>,
     <<"u5CF6", "u6839", "u770C">>,
     <<"u5CA1", "u5C71", "u770C">>,
     <<"u5E83", "u5CF6", "u770C">>,
     <<"u5C71", "u53E3", "u770C">>,
     <<"u5FB3", "u5CF6", "u770C">>,
     <<"u9999", "u5DDD", "u770C">>,
     <<"u611B", "u5A9B", "u770C">>,
     <<"u9AD8", "u77E5", "u770C">>,
     <<"u798F", "u5CA1", "u770C">>,
     <<"u4F50", "u8CC0", "u770C">>,
     <<"u9577", "u5D0E", "u770C">>,
     <<"u718A", "u672C", "u770C">>,
     <<"u5927", "u5206", "u770C">>,
     <<"u5BAE", "u5D0E", "u770C">>,
     <<"u9E7F", "u5150", "u5CF6", "u770C">>,
     <<"u6C96", "u7E04", "u770C">> >>

ENGLISH_PREFECTURES ==
  << <<<<"T", "o", "k", "y", "o">>, <<"u6771", "u4EAC", "u90FD">>>>,
     <<<<"O", "s", "a", "k", "a">>, <<"u5927", "u962A", "u5E9C">>>>,
     <<<<"K", "y", "o", "t", "o">>, <<"u4EAC", "u90FD", "u5E9C">>>>,
     <<<<"H", "o", "k", "k", "a", "i", "d", "o">>, <<"u5317", "u6D77", "u9053">>>>,
     <<<<"A", "i", "c", "h", "i">>, <<"u611B", "u77E5", "u770C">>>>,
     <<<<"K", "a", "n", "a", "g", "a", "w", "a">>, <<"u795E", "u5948", "u5DDD", "u770C">>>>,
     <<<<"S", "a", "i", "t", "a", "m", "a">>, <<"u57FC", "u7389", "u770C">>>>,
     <<<<"C", "h", "i", "b", "a">>, <<"u5343", "u8449", "u770C">>>>,
     <<<<"H", "y", "o", "g", "o">>, <<"u5175", "u5EAB", "u770C">>>>,
     <<<<"F", "u", "k", "u", "o", "k", "a">>, <<"u798F", "u5CA1", "u770C">>>> >>

\* 東京都
TokyoTo == <<"u6771", "u4EAC", "u90FD">>

\* 大阪府
OsakaFu == <<"u5927", "u962A", "u5E9C">>

\* 愛知県
AichiKen == <<"u611B", "u77E5", "u770C">>

\* 福岡県
FukuokaKen == <<"u798F", "u5CA1", "u770C">>

\* 北海道
Hokkaido == <<"u5317", "u6D77", "u9053">>

\* 不明
Fumei == <<"u4E0D", "u660E">>

\* 近畿
Kinki == <<"u8FD1", "u757F">>

\* 関西
Kansai == <<"u95A2", "u897F">>

\* 東京
Tokyo == <<"u6771", "u4EAC">>

\* 名古屋
Nagoya == <<"u540D", "u53E4", "u5C4B">>

\* 愛知
Aichi == <<"u611B", "u77E5">>

\* 福岡
Fukuoka == <<"u798F", "u5CA1">>

\* 札幌
Sapporo == <<"u672D", "u5E4C">>

industry_pains ==
  << <<<<"I", "T", "u30FB", "w", "e", "b">>,
       <<<<"u6280", "u8853", "u4EBA", "u6750", "u4E0D", "u8DB3">>, <<"u30BB", "u30AD", "u30E5", "u30EA", "u30C6", "u30A3", "u5F37", "u5316">>, <<"D", "X", "u63A8", "u9032">>, <<"u30AF", "u30E9", "u30A6", "u30C9", "u79FB", "u884C">>>>>>,
     <<<<"u88FD", "u9020", "u696D", "u754C">>,
       <<<<"u54C1", "u8CEA", "u7BA1", "u7406">>, <<"u30B3", "u30B9", "u30C8", "u524A", "u6E1B">>, <<"u81EA", "u52D5", "u5316", "u63A8", "u9032">>, <<"u30B5", "u30D7", "u30E9", "u30A4", "u30C1", "u30A7", "u30FC", "u30F3", "u6700", "u9069", "u5316">>>>>>,
     <<<<"u5C0F", "u58F2", "u30FB", "u5378", "u58F2", "u696D", "u754C">>,
       <<<<"E", "C", "u5316", "u5BFE", "u5FDC">>, <<"u5728", "u5EAB", "u7BA1", "u7406">>, <<"u9867", "u5BA2", "u6E80", "u8DB3", "u5EA6", "u5411", "u4E0A">>, <<"u7269", "u6D41", "u52B9", "u7387", "u5316">>>>>>,
     <<<<"u91D1", "u878D", "u696D", "u754C">>,
       <<<<"u30B3", "u30F3", "u30D7", "u30E9", "u30A4", "u30A2", "u30F3", "u30B9", "u5F37", "u5316">>, <<"u30C7", "u30B8", "u30BF", "u30EB", "u5316">>, <<"u30EA", "u30B9", "u30AF", "u7BA1", "u7406">>, <<"u9867", "u5BA2", "u4F53", "u9A13", "u5411", "u4E0A">>>>>>,
     <<<<"u533B", "u7642", "u30FB", "u798F", "u7949", "u696D", "u754C">>,
       <<<<"u4EBA", "u624B", "u4E0D", "u8DB3">>, <<"u30C7", "u30B8", "u30BF", "u30EB", "u5316">>, <<"u30B3", "u30B9", "u30C8", "u524A", "u6E1B">>, <<"u30B5", "u30FC", "u30D3", "u30B9", "u54C1", "u8CEA", "u5411", "u4E0A">>>>>>,
     <<<<"u6559", "u80B2", "u30FB", "u5B66", "u7FD2", "u696D", "u754C">>,
       <<<<"u30AA", "u30F3", "u30E9", "u30A4", "u30F3", "u5316">>, <<"u500B", "u5225", "u6700", "u9069", "u5316">>, <<"u5B66", "u7FD2", "u52B9", "u679C", "u5411", "u4E0A">>, <<"u904B", "u55B6", "u52B9", "u7387", "u5316">>>>>>,
     <<<<"u5EFA", "u8A2D", "u30FB", "u5EFA", "u7BC9">>,
       <<<<"u4EBA", "u624B", "u4E0D", "u8DB3">>, <<"u5B89", "u5168", "u5BFE", "u7B56">>, <<"u5DE5", "u671F", "u77ED", "u7E2E">>, <<"u30B3", "u30B9", "u30C8", "u7BA1", "u7406">>>>>>,
     <<<<"u904B", "u8F38", "u30FB", "u7269", "u6D41", "u696D", "u754C">>,
       <<<<"u30C9", "u30E9", "u30A4", "u30D0", "u30FC", "u4E0D", "u8DB3">>, <<"u71C3", "u6599", "u8CBB", "u9AD8", "u9A30">>, <<"u914D", "u9001", "u52B9", "u7387", "u5316">>, <<"u74B0", "u5883", "u5BFE", "u5FDC">>>>>>,
     <<<<"u98F2", "u98DF", "u696D", "u754C">>,
       <<<<"u4EBA", "u624B", "u4E0D", "u8DB3">>, <<"u98DF", "u6750", "u30B3", "u30B9", "u30C8">>, <<"u885B", "u751F", "u7BA1", "u7406">>, <<"u9867", "u5BA2", "u7372", "u5F97">>>>>>,
     <<<<"u4E0D", "u52D5", "u7523", "u696D", "u754C">>,
       <<<<"u30C7", "u30B8", "u30BF", "u30EB", "u5316">>, <<"u9867", "u5BA2", "u7372", "u5F97">>, <<"u7269", "u4EF6", "u7BA1", "u7406">>, <<"u6CD5", "u898F", "u5236", "u5BFE", "u5FDC">>>>>> >>

size_pains ==
  [ small  |-> <<<<"u8CC7", "u91D1", "u8ABF", "u9054">>, <<"u4EBA", "u6750", "u78BA", "u4FDD">>, <<"u30D6", "u30E9", "u30F3", "u30C9", "u8A8D", "u77E5">>, <<"u696D", "u52D9", "u52B9", "u7387", "u5316">>>>,
    medium |-> <<<<"u7D44", "u7E54", "u62E1", "u5927">>, <<"u30B7", "u30B9", "u30C6", "u30E0", "u7D71", "u5408">>, <<"u54C1", "u8CEA", "u7BA1", "u7406">>, <<"u7AF6", "u5408", "u5BFE", "u7B56">>>>,
    large  |-> <<<<"u30A4", "u30CE", "u30D9", "u30FC", "u30B7", "u30E7", "u30F3">>, <<"u30B0", "u30ED", "u30FC", "u30D0", "u30EB", "u5C55", "u958B">>, <<"u30B3", "u30F3", "u30D7", "u30E9", "u30A4", "u30A2", "u30F3", "u30B9">>, <<"u6301", "u7D9A", "u7684", "u6210", "u9577">>>> ]

keyword_pains ==
  << <<<<"A", "I">>,
       <<<<"A", "I", "u6D3B", "u7528">>, <<"u30C7", "u30FC", "u30BF", "u6D3B", "u7528">>, <<"u81EA", "u52D5", "u5316">>, <<"u7AF6", "u5408", "u512A", "u4F4D", "u6027">>>>>>,
     <<<<"D", "X">>,
       <<<<"u30C7", "u30B8", "u30BF", "u30EB", "u5316">>, <<"u696D", "u52D9", "u52B9", "u7387", "u5316">>, <<"u9867", "u5BA2", "u4F53", "u9A13", "u5411", "u4E0A">>, <<"u7AF6", "u5408", "u5BFE", "u7B56">>>>>>,
     <<<<"u74B0", "u5883">>,
       <<<<"u74B0", "u5883", "u5BFE", "u5FDC">>, <<"E", "S", "G">>, <<"u6301", "u7D9A", "u53EF", "u80FD", "u6027">>, <<"u30B3", "u30B9", "u30C8", "u524A", "u6E1B">>>>>>,
     <<<<"u4EBA", "u6750">>,
       <<<<"u4EBA", "u6750", "u78BA", "u4FDD">>, <<"u80B2", "u6210">>, <<"u5B9A", "u7740", "u7387", "u5411", "u4E0A">>, <<"u50CD", "u304D", "u65B9", "u6539", "u9769">>>>>>,
     <<<<"u30B3", "u30B9", "u30C8">>,
       <<<<"u30B3", "u30B9", "u30C8", "u524A", "u6E1B">>, <<"u52B9", "u7387", "u5316">>, <<"u53CE", "u76CA", "u6027", "u5411", "u4E0A">>, <<"u7AF6", "u4E89", "u529B", "u5F37", "u5316">>>>>> >>

generic_pains ==
  <<<<"u696D", "u52D9", "u52B9", "u7387", "u5316">>, <<"u30B3", "u30B9", "u30C8", "u524A", "u6E1B">>, <<"u9867", "u5BA2", "u6E80", "u8DB3", "u5EA6", "u5411", "u4E0A">>, <<"u7AF6", "u5408", "u512A", "u4F4D", "u6027", "u78BA", "u4FDD">>, <<"u6210", "u9577", "u6226", "u7565">>>>


InSeq(x, s) == \E i \in 1..Len(s) : s[i] = x

Take(s, n) == SubSeq(s, 1, IF Len(s) < n THEN Len(s) ELSE n)

\* list(dict.fromkeys(s)): the first occurrence of every element, in order
AppendNew(front, x) == IF InSeq(x, front) THEN front ELSE Append(front, x)

RECURSIVE Dedup(_)
Dedup(s) ==
  IF s = <<>> THEN <<>>
  ELSE AppendNew(Dedup(SubSeq(s, 1, Len(s) - 1)), s[Len(s)])

\* extract_prefecture: the first name of PREFECTURES the address contains, else the
\* first English name's prefecture, else None.
extract_prefecture(address) ==
  IF address = <<>> THEN None
  ELSE LET jp == {i \in 1..Len(PREFECTURES) : Contains(address, PREFECTURES[i])}
           en == {i \in 1..Len(ENGLISH_PREFECTURES) :
                    Contains(address, ENGLISH_PREFECTURES[i][1])}
       IN  IF jp # {} THEN Str(PREFECTURES[Min(jp)])
           ELSE IF en # {} THEN Str(ENGLISH_PREFECTURES[Min(en)][2])
           ELSE None

\* industry_pains[industry][:2] when the industry is a key of the table
IndustryPains(industry) ==
  LET hit == {i \in 1..Len(industry_pains) : industry_pains[i][1] = industry}
  IN  IF hit = {} THEN <<>> ELSE Take(industry_pains[Min(hit)][2], 2)

\* employee_count is [k, n]; "if employee_count:" is false for None and for 0
SizePains(employee_count) ==
  IF employee_count.k # "int" \/ employee_count.n = 0 THEN <<>>
  ELSE IF employee_count.n < 50 THEN Take(size_pains.small, 1)
  ELSE IF employee_count.n < 500 THEN Take(size_pains.medium, 1)
  ELSE Take(size_pains.large, 1)

\* for each keyword, the first pain of the first key it contains
RECURSIVE KeywordPains(_)
KeywordPains(news_keywords) ==
  IF news_keywords = <<>> THEN <<>>
  ELSE LET hit == {i \in 1..Len(keyword_pains) :
                     Contains(Head(news_keywords), keyword_pains[i][1])}
       IN  (IF hit = {} THEN <<>> ELSE Take(keyword_pains[Min(hit)][2], 1))
           \o KeywordPains(Tail(news_keywords))

\* the "while len(hypotheses) < 3" loop that was written without the membership test
RECURSIVE PadGenericUnchecked(_)
PadGenericUnchecked(hypotheses) ==
  IF Len(hypotheses) >= 3 THEN hypotheses
  ELSE PadGenericUnchecked(Append(hypotheses, generic_pains[1]))

\* while len(hypotheses) < 3: append the first generic pain not yet in the list
RECURSIVE PadGeneric(_)
PadGeneric(hypotheses) ==
  IF Len(hypotheses) >= 3 THEN hypotheses
  ELSE LET free == {i \in 1..Len(generic_pains) : ~InSeq(generic_pains[i], hypotheses)}
       IN  PadGeneric(Append(hypotheses, generic_pains[Min(free)]))

\* generate_pain_hypotheses with the padding loop appending without its membership test
generate_pain_hypotheses_unchecked(industry, employee_count, news_keywords) ==
  Take(PadGenericUnchecked(Take(Dedup(IndustryPains(industry) \o SizePains(employee_count)
                                        \o KeywordPains(news_keywords)), 5)), 5)

generate_pain_hypotheses(industry, employee_count, news_keywords) ==
  Take(PadGeneric(Take(Dedup(IndustryPains(industry) \o SizePains(employee_count)
                               \o KeywordPains(news_keywords)), 5)), 5)

\* extract_apex_domain: the last two "."-separated parts
extract_apex_domain(domain) ==
  LET dots == {i \in 1..Len(domain) : domain[i] = "."}
  IN  IF Cardinality(dots) < 2 THEN domain
      ELSE SubSeq(domain, Max(dots \ {Max(dots)}) + 1, Len(domain))


\* title.split(): the maximal runs of non-whitespace characters
RECURSIVE SplitWords(_)
SplitWords(s) ==
  LET t == LStrip(s)
      stops == {i \in 1..Len(t) : t[i] \in Whitespace}
  IN  IF t = <<>> THEN <<>>
      ELSE IF stops = {} THEN <<t>>
      ELSE <<SubSeq(t, 1, Min(stops) - 1)>> \o SplitWords(SubSeq(t, Min(stops), Len(t)))

----------------------------------------------------------------------------
(* Long free text, kept by its counts: len characters, of which pad are leading *)
(* or trailing whitespace and junk are tags, control characters and redundant   *)
(* inner whitespace.  k is "absent", "null" or "str".                           *)

LAbsent == [k |-> "absent", len |-> 0, pad |-> 0, junk |-> 0]

LNone == [k |-> "null", len |-> 0, pad |-> 0, junk |-> 0]

LStr(n) == [k |-> "str", len |-> n, pad |-> 0, junk |-> 0]

LTruthy(t) == t.k = "str" /\ t.len > 0

\* str.strip() on long text
LStripped(t) == [t EXCEPT !.len = t.len - t.pad, !.pad = 0]

\* sanitize_text on long text (tags and control characters off, whitespace
\* collapsed, stripped); clean_text removes the same whitespace
LSanitized(t) == [t EXCEPT !.len = t.len - t.pad - t.junk, !.pad = 0, !.junk = 0]

clean_text(t) == [t EXCEPT !.len = t.len - t.pad, !.pad = 0]

----------------------------------------------------------------------------
(* utils/validators.py *)

HttpPrefix == <<"h", "t", "t", "p", ":", "/", "/">>

HttpsPrefix == <<"h", "t", "t", "p", "s", ":", "/", "/">>

normalize_url(url) ==
  IF url = <<>> THEN <<>>
  ELSE LET withScheme == IF StartsWith(url, HttpPrefix) \/ StartsWith(url, HttpsPrefix)
                         THEN url ELSE HttpsPrefix \o url
           noSlash == IF withScheme[Len(withScheme)] = "/"
                      THEN SubSeq(withScheme, 1, Len(withScheme) - 1) ELSE withScheme
       IN  Lower(noSlash)

\* urlparse(url).netloc for an http(s) URL: from "//" to the next "/", "?" or "#"
Netloc(url) ==
  LET l == Lower(url)
      rest == IF StartsWith(l, HttpsPrefix) THEN SubSeq(url, Len(HttpsPrefix) + 1, Len(url))
              ELSE SubSeq(url, Len(HttpPrefix) + 1, Len(url))
      stops == {i \in 1..Len(rest) : rest[i] \in {"/", "?", "#"}}
  IN  IF stops = {} THEN rest ELSE SubSeq(rest, 1, Min(stops) - 1)

\* validate_website: scheme http or https, a netloc with a dot
validate_website(url) ==
  /\ url.k = "str" /\ url.v # <<>>
  /\ StartsWith(Lower(url.v), HttpPrefix) \/ StartsWith(Lower(url.v), HttpsPrefix)
  /\ Netloc(url.v) # <<>>
  /\ InSeq(".", Netloc(url.v))

InvalidNameChars == {"<", ">", "\"", "'", "&", "\n", "\r", "\t"}

validate_company_name(name) ==
  /\ name.k = "str" /\ name.v # <<>>
  /\ Strip(name.v) # <<>>
  /\ Len(name.v) <= 200
  /\ \A i \in 1..Len(name.v) : name.v[i] \notin InvalidNameChars

validate_industry(industry) ==
  /\ industry.k = "str" /\ industry.v # <<>>
  /\ Strip(industry.v) # <<>>
  /\ Len(industry.v) <= 100

validate_employee_count(count) ==
  \/ count.k = "null"
  \/ count.k = "int" /\ count.n >= 0 /\ count.n <= 100000000

validate_overview_text(text) ==
  /\ LTruthy(text)
  /\ text.len >= 300 /\ text.len <= 500
  /\ text.len - text.pad > 0

\* validate_services_text, validate_products_text
validate_services_text(text) == ~LTruthy(text) \/ text.len <= 1000

validate_personalization_notes(notes) == ~LTruthy(notes) \/ notes.len <= 500

validate_pain_hypotheses(hypotheses) ==
  /\ hypotheses.k = "list"
  /\ Len(hypotheses.v) >= 3 /\ Len(hypotheses.v) <= 5
  /\ \A i \in 1..Len(hypotheses.v) :
       Strip(hypotheses.v[i]) # <<>> /\ Len(hypotheses.v[i]) <= 120

\* the list of error strings, as a set (the code only tests membership and emptiness)
validate_company_data(company) ==
  (IF ~validate_website(Get(company.website, Str(<<>>)))
     THEN {"Invalid website URL"} ELSE {})
  \cup (IF ~validate_company_name(Get(company.name, Str(<<>>)))
     THEN {"Invalid company name"} ELSE {})
  \cup (IF ~validate_industry(Get(company.industry, Str(<<>>)))
     THEN {"Invalid industry"} ELSE {})
  \cup (IF company.employee_count.k # "absent" /\ ~validate_employee_count(company.employee_count)
     THEN {"Invalid employee count"} ELSE {})
  \cup (IF company.overview_text.k # "absent" /\ ~validate_overview_text(company.overview_text)
     THEN {"Invalid overview text"} ELSE {})
  \cup (IF company.services_text.k # "absent" /\ ~validate_services_text(company.services_text)
     THEN {"Invalid services text"} ELSE {})
  \cup (IF company.products_text.k # "absent" /\ ~validate_services_text(company.products_text)
     THEN {"Invalid products text"} ELSE {})
  \cup (IF company.pain_hypotheses.k # "absent" /\ ~validate_pain_hypotheses(company.pain_hypotheses)
     THEN {"Invalid pain hypotheses"} ELSE {})
  \cup (IF company.personalization_notes.k # "absent"
          /\ ~validate_personalization_notes(company.personalization_notes)
     THEN {"Invalid personalization notes"} ELSE {})

\* [sanitize_text(h) for h in hypotheses if h and sanitize_text(h)]
RECURSIVE SanitizeAll(_)
SanitizeAll(hs) ==
  IF hs = <<>> THEN <<>>
  ELSE (IF sanitize_text(Head(hs)) # <<>> THEN <<sanitize_text(Head(hs))>> ELSE <<>>)
       \o SanitizeAll(Tail(hs))

normalize_company_data(company) ==
  [company EXCEPT
     !.name = IF Truthy(@) THEN Str(sanitize_text(@.v)) ELSE @,
     !.industry = IF Truthy(@) THEN Str(sanitize_text(@.v)) ELSE @,
     !.hq_address_raw = IF Truthy(@) THEN Str(sanitize_text(@.v)) ELSE @,
     !.prefecture_name = IF Truthy(@) THEN Str(sanitize_text(@.v)) ELSE @,
     !.overview_text = IF LTruthy(@) THEN LSanitized(@) ELSE @,
     !.services_text = IF LTruthy(@) THEN LSanitized(@) ELSE @,
     !.products_text = IF LTruthy(@) THEN LSanitized(@) ELSE @,
     !.personalization_notes = IF LTruthy(@) THEN LSanitized(@) ELSE @,
     !.website = IF Truthy(@) THEN Str(normalize_url(@.v)) ELSE @,
     !.employee_count = IF @.k = "str" THEN [k |-> "null", n |-> 0] ELSE @,
     !.pain_hypotheses = IF @.k = "list" /\ @.v # <<>>
                         THEN [k |-> "list", v |-> SanitizeAll(@.v)] ELSE @]


----------------------------------------------------------------------------
(* Fixed strings of services/openai_client.py and pipeline/phase_c.py *)

\* 要確認
YouKakunin == <<"u8981", "u78BA", "u8A8D">>

\* 本社所在地
HonshaShozaichi == <<"u672C", "u793E", "u6240", "u5728", "u5730">>

\* 推測
Suisoku == <<"u63A8", "u6E2C">>

\* （詳細住所は要確認）
AddrDetailSuffix == <<"uFF08", "u8A73", "u7D30", "u4F4F", "u6240", "u306F", "u8981", "u78BA", "u8A8D", "uFF09">>

\* （
ParenOpen == <<"uFF08">>

\* の本社所在地）
AddrHqSuffix == <<"u306E", "u672C", "u793E", "u6240", "u5728", "u5730", "uFF09">>

\* の本社所在地（要確認）
AddrHqUnknown == <<"u306E", "u672C", "u793E", "u6240", "u5728", "u5730", "uFF08", "u8981", "u78BA", "u8A8D", "uFF09">>

\* 人材業界
JinzaiGyokai == <<"u4EBA", "u6750", "u696D", "u754C">>

\* 通信業界
TsushinGyokai == <<"u901A", "u4FE1", "u696D", "u754C">>

\* 業界における業務効率化の課題
FbPain1 == <<"u696D", "u754C", "u306B", "u304A", "u3051", "u308B", "u696D", "u52D9", "u52B9", "u7387", "u5316", "u306E", "u8AB2", "u984C">>

\* の成長戦略に関する検討
FbPain2 == <<"u306E", "u6210", "u9577", "u6226", "u7565", "u306B", "u95A2", "u3059", "u308B", "u691C", "u8A0E">>

\* 市場での競合優位性の確保
FbPain3 == <<"u5E02", "u5834", "u3067", "u306E", "u7AF6", "u5408", "u512A", "u4F4D", "u6027", "u306E", "u78BA", "u4FDD">>

\* 企業
KigyoDefault == <<"u4F01", "u696D">>

\* サービス提供
ServiceDefault == <<"u30B5", "u30FC", "u30D3", "u30B9", "u63D0", "u4F9B">>

\* 業務効率化
PainDefault == <<"u696D", "u52D9", "u52B9", "u7387", "u5316">>


TokyoWord == <<"t", "o", "k", "y", "o">>

ShibuyaWord == <<"s", "h", "i", "b", "u", "y", "a">>

OsakaWord == <<"o", "s", "a", "k", "a">>

NagoyaWord == <<"n", "a", "g", "o", "y", "a">>

AichiWord == <<"a", "i", "c", "h", "i">>

----------------------------------------------------------------------------
(* services/openai_client.py *)

NoCount == [k |-> "null", n |-> 0]

NoList == [k |-> "absent", v |-> <<>>]

List(hs) == [k |-> "list", v |-> hs]

\* result.setdefault(key, default)
SetDefault(f, default) == IF f.k = "absent" THEN default ELSE f

\* [h for h in hypotheses if h and len(h.strip()) > 0]
RECURSIVE FilterBlank(_)
FilterBlank(hs) ==
  IF hs = <<>> THEN <<>>
  ELSE (IF Strip(Head(hs)) # <<>> THEN <<Head(hs)>> ELSE <<>>) \o FilterBlank(Tail(hs))

\* _post_process_result up to the point where it counts the hypotheses
OpenAI_post_process_result(result, company) ==
  [result EXCEPT
     !.website = SetDefault(@, Str(company.website)),
     !.name = SetDefault(@, Str(company.name)),
     !.industry = SetDefault(@, Str(company.industry)),
     !.status = IF @ = "absent" THEN "ok" ELSE @,
     !.pain_hypotheses = IF @.k = "absent" THEN @
                         ELSE IF @.k = "list" THEN List(FilterBlank(@.v))
                         ELSE List(<<>>),
     !.overview_text = IF LTruthy(@) THEN LStripped(@) ELSE @,
     !.personalization_notes = IF LTruthy(@) THEN LStripped(@) ELSE @,
     !.services_text = IF LTruthy(@) THEN LStripped(@) ELSE @,
     !.products_text = IF LTruthy(@) THEN LStripped(@) ELSE @]

\* With fewer than three hypotheses _post_process_result calls
\* self._generate_fallback_hypotheses, which OpenAIClient does not define: the
\* AttributeError is caught by format_and_synthesize's "except Exception".
OpenAI_post_process_raises(result, company) ==
  LET r == OpenAI_post_process_result(result, company)
  IN  r.pain_hypotheses.k = "absent" \/ Len(r.pain_hypotheses.v) < 3

\* OpenAIClient._get_fallback_result(company)
OpenAI_get_fallback_result(company) ==
  [ website |-> Str(company.website),
    name |-> Str(company.name),
    industry |-> Str(company.industry),
    status |-> "ok",
    hq_address_raw |-> Str(<<>>),
    prefecture_name |-> Str(Fumei),
    overview_text |->
      LStr(IF company.industry = JinzaiGyokai THEN 55 + Len(company.name)
           ELSE IF company.industry = TsushinGyokai THEN 59 + Len(company.name)
           ELSE 35 + Len(company.name) + Len(company.industry)),
    services_text |-> LStr(0),
    products_text |-> LStr(0),
    pain_hypotheses |-> List(<<>>),
    personalization_notes |-> LStr(34 + Len(company.industry)),
    employee_count |-> NoCount,
    recent_news |-> NoList ]

\* llm is the provider's answer: kind "error" (the API call or json.loads raised) or
\* "json" with the parsed result.  Every exception ends in the client's own fallback.
OpenAI_format_and_synthesize(company, llm) ==
  IF llm.kind = "error" THEN OpenAI_get_fallback_result(company)
  ELSE IF OpenAI_post_process_raises(llm.result, company)
       THEN OpenAI_get_fallback_result(company)
       ELSE OpenAI_post_process_result(llm.result, company)


----------------------------------------------------------------------------
(* pipeline/phase_c.py *)

\* " ".join(address_lines)
RECURSIVE JoinSpace(_)
JoinSpace(lines) ==
  IF lines = <<>> THEN <<>>
  ELSE IF Len(lines) = 1 THEN lines[1]
  ELSE lines[1] \o <<" ">> \o JoinSpace(Tail(lines))

\* phase_b_result is {} (kind "empty"), or carries extracted_data: a dict with
\* address_lines (kind "dict") or something that is no dict (kind "nondict").
AddressLines(phase_b_result) ==
  IF phase_b_result.kind = "dict" THEN phase_b_result.address_lines ELSE <<>>

\* the prefecture the company-name keywords give, None when none matches
NamePrefecture(name) ==
  IF Contains(name, Kinki) \/ Contains(name, Kansai) THEN Str(OsakaFu)
  ELSE IF Contains(name, Tokyo) THEN Str(TokyoTo)
  ELSE IF Contains(name, Nagoya) \/ Contains(name, Aichi) THEN Str(AichiKen)
  ELSE IF Contains(name, Fukuoka) THEN Str(FukuokaKen)
  ELSE IF Contains(name, Sapporo) \/ Contains(name, Hokkaido) THEN Str(Hokkaido)
  ELSE None

\* the prefecture the website keywords give, Tokyo by default
WebsitePrefecture(website) ==
  LET w == Lower(website)
  IN  IF Contains(w, TokyoWord) \/ Contains(w, ShibuyaWord) THEN TokyoTo
      ELSE IF Contains(w, OsakaWord) THEN OsakaFu
      ELSE IF Contains(w, NagoyaWord) \/ Contains(w, AichiWord) THEN AichiKen
      ELSE TokyoTo

\* "if address_lines:" - the address of Phase B replaces the draft's, and its
\* prefecture the draft's
AddressFromPhaseB(normalized_data, full_address) ==
  IF full_address # <<>>
  THEN [normalized_data EXCEPT
          !.hq_address_raw = Str(full_address),
          !.prefecture_name = IF extract_prefecture(full_address).k = "str"
                              THEN extract_prefecture(full_address) ELSE @]
  ELSE normalized_data

\* the company's prefecture hint
PrefectureFromHint(normalized_data, company) ==
  IF ~Truthy(normalized_data.prefecture_name) /\ company.prefecture # <<>>
  THEN [normalized_data EXCEPT !.prefecture_name = Str(company.prefecture)]
  ELSE normalized_data

\* the company-name keywords
PrefectureFromName(normalized_data, company) ==
  IF ~Truthy(normalized_data.prefecture_name)
       /\ NamePrefecture(Get(normalized_data.name, Str(company.name)).v).k = "str"
  THEN [normalized_data EXCEPT
          !.prefecture_name = NamePrefecture(Get(normalized_data.name, Str(company.name)).v)]
  ELSE normalized_data

\* an address made from the prefecture
AddressFromPrefecture(normalized_data) ==
  IF ~Truthy(normalized_data.hq_address_raw) /\ Truthy(normalized_data.prefecture_name)
  THEN [normalized_data EXCEPT
          !.hq_address_raw = Str(normalized_data.prefecture_name.v \o AddrDetailSuffix)]
  ELSE normalized_data

\* f"{prefecture}（{name}の本社所在地）" or f"{name}の本社所在地（要確認）"
NameAddress(prefecture, name) ==
  IF Truthy(prefecture) THEN Str(prefecture.v \o ParenOpen \o name \o AddrHqSuffix)
  ELSE Str(name \o AddrHqUnknown)

\* an address made from the company name
AddressFromName(data, company) ==
  IF ~Truthy(data.hq_address_raw)
  THEN [data EXCEPT
          !.hq_address_raw = NameAddress(Get(data.prefecture_name, Str(company.prefecture)),
                                         Get(data.name, Str(company.name)).v)]
  ELSE data

\* the website keywords, Tokyo by default
PrefectureFromWebsite(normalized_data, company) ==
  IF ~Truthy(normalized_data.prefecture_name)
  THEN [normalized_data EXCEPT
          !.prefecture_name =
             Str(WebsitePrefecture(Get(normalized_data.website, Str(company.website)).v))]
  ELSE normalized_data

PhaseC_process_address_info(normalized_data, company, phase_b_result) ==
  PrefectureFromWebsite(
    AddressFromName(
      AddressFromPrefecture(
        PrefectureFromName(
          PrefectureFromHint(
            AddressFromPhaseB(normalized_data,
                              Strip(JoinSpace(AddressLines(phase_b_result)))),
            company),
          company)),
      company),
    company)

\* _extract_news_keywords: the words longer than two characters of the titles.
\* list(set(keywords))[:10] enumerates the set in an order the code does not fix:
\* every enumeration is a possible result.
RECURSIVE TitleWords(_)
TitleWords(recent_news) ==
  IF recent_news = <<>> THEN {}
  ELSE {w \in {SplitWords(Head(recent_news))[i] :
                 i \in 1..Len(SplitWords(Head(recent_news)))} : Len(w) > 2}
       \cup TitleWords(Tail(recent_news))

PhaseC_extract_news_keywords(recent_news) ==
  LET words == TitleWords(recent_news)
  IN  {Take(s, 10) : s \in {q \in [1..Cardinality(words) -> words] :
                              \A w \in words : \E i \in 1..Cardinality(words) : q[i] = w}}

\* not x.get("pain_hypotheses") or len(x["pain_hypotheses"]) < 3
PainInsufficient(d) ==
  d.pain_hypotheses.k # "list" \/ Len(d.pain_hypotheses.v) < 3

\* the length of generate_personalization_notes(name, prefecture, industry,
\* top_service, top_pain)
NotesLength(name, prefecture, industry, top_service, top_pain) ==
  Len(name) + 2 * Len(industry) + Len(top_service)
  + (IF prefecture # <<>> THEN Len(prefecture) + 2 ELSE 0)
  + (IF top_pain # <<>> THEN Len(top_pain) + 15 ELSE 0)
  + 33

\* "Generate pain hypotheses if not present or insufficient"; news_keywords is the
\* enumeration _extract_news_keywords returned
FillPainHypotheses(normalized_data, news_keywords) ==
  IF PainInsufficient(normalized_data)
  THEN [normalized_data EXCEPT
          !.pain_hypotheses =
             List(generate_pain_hypotheses(Get(normalized_data.industry, Str(<<>>)).v,
                                           normalized_data.employee_count, news_keywords))]
  ELSE normalized_data

\* _get_top_pain
TopPain(pain_hypotheses) ==
  IF pain_hypotheses.v = <<>> THEN PainDefault ELSE pain_hypotheses.v[1]

\* "Generate personalization notes if not present"
FillPersonalizationNotes(normalized_data) ==
  IF ~LTruthy(normalized_data.personalization_notes)
  THEN [normalized_data EXCEPT
          !.personalization_notes =
             LStr(NotesLength(Get(normalized_data.name, Str(<<>>)).v,
                              Get(normalized_data.prefecture_name, Str(<<>>)).v,
                              Get(normalized_data.industry, Str(<<>>)).v,
                              ServiceDefault, TopPain(normalized_data.pain_hypotheses)))]
  ELSE normalized_data

\* "Clean text fields" and "Add metadata"
CleanTextFields(normalized_data) ==
  [normalized_data EXCEPT
     !.overview_text = IF LTruthy(@) THEN clean_text(@) ELSE @,
     !.services_text = IF LTruthy(@) THEN clean_text(@) ELSE @,
     !.products_text = IF LTruthy(@) THEN clean_text(@) ELSE @,
     !.personalization_notes = IF LTruthy(@) THEN clean_text(@) ELSE @,
     !.status = "ok"]

PhaseC_post_process_data(formatted_data, company, phase_b_result, news_keywords) ==
  CleanTextFields(
    FillPersonalizationNotes(
      FillPainHypotheses(
        PhaseC_process_address_info(normalize_company_data(formatted_data),
                                    company, phase_b_result),
        news_keywords)))

\* the fixed characters of the expansion template: two line breaks and three paragraphs
ExpandTemplateLen == 285

\* _expand_overview_text(current_text, company) for a string; len(None) raises
PhaseC_expand_overview_text(current_text, company) ==
  IF current_text.len >= 300 THEN current_text
  ELSE LStr(current_text.len + ExpandTemplateLen + Len(company.name)
              + Len(company.industry) + Len(company.website))

\* the fixed characters of the fallback overview
FallbackOverviewLen == 323

\* PhaseC._get_fallback_result(company)
PhaseC_get_fallback_result(company) ==
  [ website |-> Str(company.website),
    name |-> Str(company.name),
    industry |-> Str(company.industry),
    status |-> "error",
    hq_address_raw |->
      IF company.prefecture # <<>>
      THEN Str(company.prefecture \o ParenOpen \o company.name \o AddrHqSuffix)
      ELSE Str(company.name \o AddrHqUnknown),
    prefecture_name |-> Str(company.prefecture),
    overview_text |-> LStr(FallbackOverviewLen + 2 * Len(company.name)
                             + 2 * Len(company.industry) + 2 * Len(company.website)),
    services_text |-> LStr(0),
    products_text |-> LStr(0),
    pain_hypotheses |-> List(<< company.industry \o FbPain1,
                                company.name \o FbPain2,
                                company.industry \o FbPain3 >>),
    personalization_notes |-> LStr(17 + Len(company.name)),
    employee_count |-> NoCount,
    recent_news |-> NoList ]

\* if "Invalid overview text" in errors: expand the overview
FixOverview(final_data, errors, company) ==
  IF "Invalid overview text" \in errors
  THEN [final_data EXCEPT !.overview_text = PhaseC_expand_overview_text(@, company)]
  ELSE final_data

\* "if not final_data.get('prefecture_name') and company.get('prefecture')", then the
\* status
FixPrefecture(final_data, company) ==
  [final_data EXCEPT
     !.prefecture_name = IF ~Truthy(@) /\ company.prefecture # <<>>
                         THEN Str(company.prefecture) ELSE @,
     !.status = "parse_error"]

\* the record after "if not is_valid:" has fixed it
PhaseC_fix_validation_errors(final_data, errors, company) ==
  FixPrefecture(AddressFromName(FixOverview(final_data, errors, company), company), company)

\* The exceptions format_and_synthesize's own "except Exception" catches:
\* _prepare_input_data calls .get on extracted_data that is no dict, and
\* _expand_overview_text takes len() of an overview_text that is None.
PhaseC_raises(phase_b_result, final_data) ==
  \/ phase_b_result.kind = "nondict"
  \/ /\ "Invalid overview text" \in validate_company_data(final_data)
     /\ final_data.overview_text.k = "null"

\* "if not is_valid:" with the record left as it is
PhaseC_validate_and_fix_unvalidated(final_data, errors, company) == final_data

\* "is_valid, errors = validate_company_data(final_data); if not is_valid: ..."
PhaseC_validate_and_fix(final_data, errors, company) ==
  IF errors = {} THEN final_data
  ELSE PhaseC_fix_validation_errors(final_data, errors, company)

\* the "try" block's result for the record _post_process_data returned
PhaseC_result(company, phase_b_result, final_data) ==
  IF PhaseC_raises(phase_b_result, final_data)
  THEN [status |-> "error", enriched_data |-> PhaseC_get_fallback_result(company)]
  ELSE [status |-> "success",
        enriched_data |-> PhaseC_validate_and_fix(final_data,
                                                  validate_company_data(final_data), company)]

\* PhaseC.format_and_synthesize: {"status": ..., "enriched_data": ...}
PhaseC_format_and_synthesize(company, phase_b_result, formatted_data, news_keywords) ==
  PhaseC_result(company, phase_b_result,
                PhaseC_post_process_data(formatted_data, company, phase_b_result,
                                         news_keywords))


----------------------------------------------------------------------------
(* pipeline/phase_a.py *)

\* about, company, 会社概要, 会社情報
about_keywords ==
  {<<"a", "b", "o", "u", "t">>,
   <<"c", "o", "m", "p", "a", "n", "y">>,
   <<"u4F1A", "u793E", "u6982", "u8981">>,
   <<"u4F1A", "u793E", "u60C5", "u5831">>}

\* business, service, 事業, サービス
business_keywords ==
  {<<"b", "u", "s", "i", "n", "e", "s", "s">>,
   <<"s", "e", "r", "v", "i", "c", "e">>,
   <<"u4E8B", "u696D">>,
   <<"u30B5", "u30FC", "u30D3", "u30B9">>}

\* product, 製品, プロダクト
product_keywords ==
  {<<"p", "r", "o", "d", "u", "c", "t">>,
   <<"u88FD", "u54C1">>,
   <<"u30D7", "u30ED", "u30C0", "u30AF", "u30C8">>}

\* news, press, ir, ニュース, プレス
news_page_keywords ==
  {<<"n", "e", "w", "s">>,
   <<"p", "r", "e", "s", "s">>,
   <<"i", "r">>,
   <<"u30CB", "u30E5", "u30FC", "u30B9">>,
   <<"u30D7", "u30EC", "u30B9">>}

\* legal, 特定商取引, privacy, terms
legal_keywords ==
  {<<"l", "e", "g", "a", "l">>,
   <<"u7279", "u5B9A", "u5546", "u53D6", "u5F15">>,
   <<"p", "r", "i", "v", "a", "c", "y">>,
   <<"t", "e", "r", "m", "s">>}


NoUrls ==
  [ about_pages |-> <<>>, business_pages |-> <<>>, product_pages |-> <<>>,
    news_pages |-> <<>>, legal_pages |-> <<>> ]

\* any(keyword in url.lower() or keyword in title for keyword in keywords)
Matches(result, keywords) ==
  \E keyword \in keywords :
    Contains(Lower(result.url), keyword) \/ Contains(Lower(result.title), keyword)

Category(result) ==
  IF Matches(result, about_keywords) THEN "about_pages"
  ELSE IF Matches(result, business_keywords) THEN "business_pages"
  ELSE IF Matches(result, product_keywords) THEN "product_pages"
  ELSE IF Matches(result, news_page_keywords) THEN "news_pages"
  ELSE IF Matches(result, legal_keywords) THEN "legal_pages"
  ELSE "about_pages"

\* the URLs of the results that fall in a category, in result order
RECURSIVE UrlsOf(_, _)
UrlsOf(results, category) ==
  IF results = <<>> THEN <<>>
  ELSE (IF Category(Head(results)) = category THEN <<Head(results).url>> ELSE <<>>)
       \o UrlsOf(Tail(results), category)

\* phase_a_search: search is the provider's answer, kind "error" when the call raised
phase_a_search(company_info, search) ==
  IF search.kind = "error" THEN NoUrls
  ELSE [category \in DOMAIN NoUrls |-> Take(UrlsOf(search.results, category), 5)]

----------------------------------------------------------------------------
(* pipeline/phase_b.py *)

\* all_urls: the categories' lists one after the other
AllUrls(candidate_urls) ==
  candidate_urls.about_pages \o candidate_urls.business_pages
  \o candidate_urls.product_pages \o candidate_urls.news_pages
  \o candidate_urls.legal_pages

SeqRange(s) == {s[i] : i \in 1..Len(s)}

\* all_urls[:5], had the list not gone through set()
UrlsToExtract_with_duplicates(candidate_urls) == {Take(AllUrls(candidate_urls), 5)}

\* list(set(all_urls))[:5]: the set in an order the code does not fix, cut at five
UrlsToExtract(candidate_urls) ==
  LET urls == SeqRange(AllUrls(candidate_urls))
  IN  {Take(q, 5) : q \in {r \in [1..Cardinality(urls) -> urls] :
                             \A u \in urls : \E i \in 1..Cardinality(urls) : r[i] = u}}

EmptyPhaseB == [kind |-> "empty", address_lines |-> <<>>]

\* phase_b_extract once the provider has answered: extract is kind "error" (the call
\* raised), "dict" (a JSON object, with its address_lines) or "nondict" (other JSON,
\* on which extracted_data.keys() raises): every exception ends in {}
phase_b_extract(company_info, candidate_urls, extract) ==
  IF AllUrls(candidate_urls) = <<>> THEN EmptyPhaseB
  ELSE IF extract.kind # "dict" THEN EmptyPhaseB
  ELSE [kind |-> "dict", address_lines |-> extract.address_lines]


----------------------------------------------------------------------------
(* Inputs: companies and provider answers *)

\* IT・web
ItWeb == <<"I", "T", "u30FB", "w", "e", "b">>

\* 製造業界
Seizo == <<"u88FD", "u9020", "u696D", "u754C">>

\* コスト削減 DX推進中
CostTitle ==
  <<"u30B3", "u30B9", "u30C8", "u524A", "u6E1B", " ", "D", "X", "u63A8", "u9032", "u4E2D">>

\* コスト高騰 AI活用
CostTitle2 ==
  <<"u30B3", "u30B9", "u30C8", "u9AD8", "u9A30", " ", "A", "I", "u6D3B", "u7528">>

\* 大阪府大阪市
OsakaCity == <<"u5927", "u962A", "u5E9C", "u5927", "u962A", "u5E02">>

\* 東京都府中市
Fuchu == <<"u6771", "u4EAC", "u90FD", "u5E9C", "u4E2D", "u5E02">>

\* https://a.jp
SiteA == <<"h", "t", "t", "p", "s", ":", "/", "/", "a", ".", "j", "p">>

\* https://B.jp/
SiteB == <<"h", "t", "t", "p", "s", ":", "/", "/", "B", ".", "j", "p", "/">>

\* a.jp
SiteC == <<"a", ".", "j", "p">>

\* A, an IT・web company with no prefecture hint
CompanyA == [website |-> SiteA, name |-> <<"A">>, industry |-> ItWeb, prefecture |-> <<>>]

\* 東京B, a 製造業界 company with the hint 大阪府
CompanyB ==
  [website |-> SiteB, name |-> Tokyo \o <<"B">>, industry |-> Seizo, prefecture |-> OsakaFu]

\* X, with a short website, name and industry
CompanyC == [website |-> SiteC, name |-> <<"X">>, industry |-> <<"I", "T">>, prefecture |-> <<>>]

Companies == {CompanyA, CompanyB, CompanyC}

\* the longest pain_hypotheses list a draft carries
MaxDraftHypotheses == 6

\* draft hypothesis number i: "p" followed by i "x"
DraftHypothesis(i) == <<"p">> \o [j \in 1..i |-> "x"]

DraftHypotheses(n) == [i \in 1..n |-> DraftHypothesis(i)]

\* a hypothesis of 121 characters
LongHypothesis == [j \in 1..121 |-> "y"]

\* <b>: sanitize_text leaves nothing of it
TagOnly == <<"<", "b", ">">>

GoodDraft ==
  [ website |-> Absent,
    name |-> Absent,
    industry |-> Absent,
    status |-> "absent",
    hq_address_raw |-> Str(OsakaCity),
    prefecture_name |-> Str(OsakaFu),
    overview_text |-> LStr(400),
    services_text |-> LStr(20),
    products_text |-> LAbsent,
    pain_hypotheses |-> List(DraftHypotheses(3)),
    personalization_notes |-> LStr(50),
    employee_count |-> [k |-> "int", n |-> 30],
    recent_news |-> NoList ]

DraftOverviews ==
  { LAbsent, LNone, LStr(0), LStr(120), [k |-> "str", len |-> 302, pad |-> 1, junk |-> 3],
    LStr(300), LStr(500), LStr(501) }

DraftAddresses == {Absent, None, Str(<<>>), Str(OsakaCity), Str(Fuchu)}

DraftPrefectures == {Absent, None, Str(OsakaFu), Str(Fumei)}

DraftPains ==
  { NoList, [k |-> "null", v |-> <<>>] }
  \cup {List(DraftHypotheses(n)) : n \in 0..MaxDraftHypotheses}
  \cup { List(<<DraftHypothesis(1), TagOnly, DraftHypothesis(2)>>),
         List(<<DraftHypothesis(1), <<" ">>, DraftHypothesis(2)>>),
         List(<<DraftHypothesis(1), DraftHypothesis(2), LongHypothesis>>) }

DraftCounts ==
  { [k |-> "absent", n |-> 0], NoCount, [k |-> "int", n |-> 30], [k |-> "int", n |-> 600],
    [k |-> "str", n |-> 0] }

DraftNews == {NoList, List(<<CostTitle, CostTitle2>>)}

DraftNames == {Absent, Str(<<"A", "&", "B">>), Str(<<" ", "A", "<", "b", ">">>)}

LLMResults ==
  {[GoodDraft EXCEPT !.overview_text = o, !.pain_hypotheses = h] :
     o \in DraftOverviews, h \in DraftPains}
  \cup {[GoodDraft EXCEPT !.hq_address_raw = a, !.prefecture_name = q, !.overview_text = o] :
     a \in DraftAddresses, q \in DraftPrefectures, o \in {LStr(400), LStr(0), LAbsent}}
  \cup {[GoodDraft EXCEPT !.employee_count = c, !.recent_news = r, !.industry = i,
                          !.pain_hypotheses =
                            List(<<DraftHypothesis(1), TagOnly, DraftHypothesis(2)>>)] :
     c \in DraftCounts, r \in DraftNews, i \in {Absent, Str(Seizo)}}
  \cup {[GoodDraft EXCEPT !.name = n, !.services_text = s, !.personalization_notes = t] :
     n \in DraftNames, s \in {LStr(20), LStr(1001)}, t \in {LAbsent, LStr(50), LStr(501)}}

LLMAnswers ==
  {[kind |-> "error", result |-> GoodDraft]}
  \cup {[kind |-> "json", result |-> r] : r \in LLMResults}

\* https://a.jp/about
UrlAbout == SiteA \o <<"/", "a", "b", "o", "u", "t">>

\* https://a.jp/x
UrlOther == SiteA \o <<"/", "x">>

SearchAnswers ==
  { [kind |-> "error", results |-> <<>>],
    [kind |-> "ok", results |-> <<>>],
    [kind |-> "ok", results |-> << [url |-> UrlAbout, title |-> <<"A">>],
                                   [url |-> UrlOther, title |-> <<"N", "e", "w", "s">>],
                                   [url |-> UrlAbout, title |-> <<"x">>] >>] }

ExtractAnswers ==
  { [kind |-> "error", address_lines |-> <<>>],
    [kind |-> "nondict", address_lines |-> <<>>],
    [kind |-> "dict", address_lines |-> <<>>],
    [kind |-> "dict", address_lines |-> <<<<" ">>>>],
    [kind |-> "dict", address_lines |-> <<Fuchu, <<"1">>>>] }


----------------------------------------------------------------------------
(* State *)

VARIABLES
  \* one company through Phase A, B and C (SpecPipeline)
  stage,            \* "start", "searched", "extracted", "synthesized"
  company,          \* the CompanyInput
  search,           \* the SearchProvider's answer
  phase_a_result,   \* the CandidateURLSet
  extract_calls,    \* the URL lists the ExtractionProvider was called with
  phase_b_result,   \* the extracted fields
  llm,              \* the SynthesisProvider's answer
  news_keywords,    \* the keyword list _extract_news_keywords returned
  phase_c_output    \* {"status", "enriched_data"}

pipelineVars ==
  << stage, company, search, phase_a_result, extract_calls, phase_b_result, llm,
     news_keywords, phase_c_output >>

VARIABLES
  \* TaskHandler.process_company runs against the Store (Spec)
  store,            \* the rows of the enriched table, in insertion order
  clock,            \* the time of the last write, counted in writes
  stats,            \* TaskHandler.stats
  acquired,         \* the tokens taken from each rate limiter so far
  task,             \* task -> the position and locals of its process_company call
  last_outcome,     \* website -> the status the latest finished run returned
  simple_runs       \* the SimpleProcessor runs that stored a record so far

handlerVars == << store, clock, stats, acquired, task, last_outcome, simple_runs >>

VARIABLES
  \* process_companies_direct / process_companies_simple over one batch (SpecBatch)
  processor,        \* "direct" or "simple"
  companies,        \* the batch: what happens to each company's processing
  futures,          \* index -> "queued", "running", "done" or "collected"
  returned,         \* index -> what _process_single_company returned
  results,          \* the results dict
  batch_pc          \* "running" or "returned"

batchVars == << processor, companies, futures, returned, results, batch_pc >>

VARIABLES
  \* one RateLimiter and the coroutines that call acquire on it (SpecLimiter)
  rate_per_second,  \* tokens added per second
  max_burst,        \* the capacity of the bucket, in tokens
  tokens,           \* self.tokens, counted in TokenUnit-ths of a token
  last_refill_time, \* self.last_refill_time, in ticks
  monotonic,        \* time.monotonic(), in ticks
  lock,             \* the caller that holds self.lock, 0 when it is free
  lock_waiters,     \* the callers queued on self.lock, first come first
  caller            \* caller -> where its acquire call stands

limiterVars ==
  << rate_per_second, max_burst, tokens, last_refill_time, monotonic, lock,
     lock_waiters, caller >>

VARIABLES
  \* a batch driver script over the companies it selected (SpecDriver)
  driver,           \* "smart" (generate_smart_addresses) or "search" (run_batch_processing)
  batch_size,       \* the driver's batch size
  outcome,          \* company index -> "none", "running", "success" or "failed"
  batch_of,         \* company index -> the batch it was submitted in, -1 before
  batch_index,      \* i of the driver's loop
  slept,            \* the values of i after whose batch the driver slept
  driver_pc         \* "idle", "submit", "collect", "sleep" or "done"

driverVars == << driver, batch_size, outcome, batch_of, batch_index, slept, driver_pc >>

vars == << pipelineVars, handlerVars, batchVars, limiterVars, driverVars >>

NoSearch == [kind |-> "none", results |-> <<>>]

NoLLM == [kind |-> "none", result |-> GoodDraft]

NoOutput == [status |-> "none", enriched_data |-> GoodDraft]

PipelineIdle ==
  /\ stage = "start"
  /\ company = CompanyA
  /\ search = NoSearch
  /\ phase_a_result = NoUrls
  /\ extract_calls = <<>>
  /\ phase_b_result = EmptyPhaseB
  /\ llm = NoLLM
  /\ news_keywords = <<>>
  /\ phase_c_output = NoOutput

\* one second is TicksPerSecond ticks, and one token is as many token units, so that
\* the tokens a tick adds are a whole number of units
TicksPerSecond == 2

TokenUnit == TicksPerSecond

NumCallers == 4

Callers == 1..NumCallers

\* an acquire call not yet made
NoCall ==
  [ pc |-> "idle", ticket |-> 0, issued_at |-> 0, wake_at |-> 0, granted_at |-> 0,
    spent |-> 0 ]

LimiterIdle ==
  /\ rate_per_second = 1
  /\ max_burst = 1
  /\ tokens = TokenUnit
  /\ last_refill_time = 0
  /\ monotonic = 0
  /\ lock = 0
  /\ lock_waiters = <<>>
  /\ caller = [c \in Callers |-> NoCall]

MaxCompanies == 5

DriverIdle ==
  /\ driver = "smart"
  /\ batch_size = 1
  /\ outcome = [c \in 1..MaxCompanies |-> "none"]
  /\ batch_of = [c \in 1..MaxCompanies |-> -1]
  /\ batch_index = 0
  /\ slept = {}
  /\ driver_pc = "idle"

----------------------------------------------------------------------------
(* services/bigquery.py: the enriched table *)

\* _prepare_row_for_bq: the columns of one row; a key the record lacks gets its default
BigQuery_prepare_row_for_bq(company_data, signals, last_crawled_at) ==
  [ website |-> Get(company_data.website, Str(<<>>)),
    name |-> Get(company_data.name, Str(<<>>)),
    industry |-> Get(company_data.industry, Str(<<>>)),
    hq_address_raw |-> Get(company_data.hq_address_raw, Str(<<>>)),
    prefecture_name |-> Get(company_data.prefecture_name, Str(<<>>)),
    overview_text |->
      IF company_data.overview_text.k = "absent" THEN LStr(0) ELSE company_data.overview_text,
    pain_hypotheses |->
      IF company_data.pain_hypotheses.k = "absent" THEN List(<<>>)
      ELSE company_data.pain_hypotheses,
    services_text |->
      IF company_data.services_text.k = "absent" THEN LStr(0) ELSE company_data.services_text,
    products_text |->
      IF company_data.products_text.k = "absent" THEN LStr(0) ELSE company_data.products_text,
    personalization_notes |->
      IF company_data.personalization_notes.k = "absent" THEN LStr(0)
      ELSE company_data.personalization_notes,
    employee_count |->
      IF company_data.employee_count.k = "absent" THEN NoCount
      ELSE company_data.employee_count,
    last_crawled_at |-> last_crawled_at,
    status |-> IF company_data.status = "absent" THEN "ok" ELSE company_data.status,
    signals |-> signals ]

\* MERGE ... ON T.website = S.website: every row with that website is updated, and a
\* row is inserted when there is none
BigQuery_merge(rows, row) ==
  IF \E i \in 1..Len(rows) : rows[i].website = row.website
  THEN [i \in 1..Len(rows) |-> IF rows[i].website = row.website THEN row ELSE rows[i]]
  ELSE Append(rows, row)

\* upsert_company, when the query succeeds
BigQuery_upsert_company(rows, company_data, signals, now) ==
  BigQuery_merge(rows, BigQuery_prepare_row_for_bq(company_data, signals, now))

\* get_company_status: the status of a row WHERE website = @website LIMIT 1, and
\* "none" (None) when there is no row or the query raises
BigQuery_get_company_status(rows, website) ==
  {rows[i].status : i \in {j \in 1..Len(rows) : rows[j].website = Str(website)}}
  \cup IF \E i \in 1..Len(rows) : rows[i].website = Str(website) THEN {} ELSE {"none"}

QueryFailed == "none"

----------------------------------------------------------------------------
(* handlers/task_handler.py *)

\* self.stats
NoStats ==
  [ total_processed |-> 0, successful |-> 0, failed |-> 0,
    by_status |-> [status \in {"ok", "failed", "skipped_already_ok"} |-> 0] ]

\* the top-level counters after _update_stats(status)
CountedStats(st, status) ==
  [st EXCEPT !.total_processed = @ + 1,
             !.successful = IF status = "ok" THEN @ + 1 ELSE @,
             !.failed = IF status = "ok" THEN @ ELSE @ + 1]

\* self.stats.get(status, 0): stats has the key "failed" and no key for another status
StatsGet(st, status) == IF status = "failed" THEN st.failed ELSE 0

\* _update_stats(status)
TaskHandler_update_stats(st, status) ==
  [CountedStats(st, status) EXCEPT
     !.by_status[status] = StatsGet(CountedStats(st, status), status) + 1]

\* error_record of _handle_error
TaskHandler_error_record(company_data) ==
  [ website |-> Str(company_data.website),
    name |-> Str(company_data.name),
    industry |-> Str(company_data.industry),
    status |-> "failed",
    hq_address_raw |-> Absent,
    prefecture_name |-> Absent,
    overview_text |-> LAbsent,
    services_text |-> LAbsent,
    products_text |-> LAbsent,
    pain_hypotheses |-> NoList,
    personalization_notes |-> LAbsent,
    employee_count |-> [k |-> "absent", n |-> 0],
    recent_news |-> NoList ]

\* final_record: enriched_data with status overwritten by phase_c_output's status
TaskHandler_final_record(phase_c) ==
  [phase_c.enriched_data EXCEPT !.status = phase_c.status]

\* s.replace(sub, ''): every occurrence of sub, left to right, removed
RECURSIVE Remove(_, _)
Remove(s, sub) ==
  IF Len(s) < Len(sub) THEN s
  ELSE IF StartsWith(s, sub) THEN Remove(SubSeq(s, Len(sub) + 1, Len(s)), sub)
  ELSE <<Head(s)>> \o Remove(Tail(s), sub)

\* s.split('/')[0]
BeforeSlash(s) ==
  IF \E i \in 1..Len(s) : s[i] = "/"
  THEN SubSeq(s, 1, Min({i \in 1..Len(s) : s[i] = "/"}) - 1)
  ELSE s

\* the domain phase_a_search and phase_b_extract take their domain limiter for
PhaseDomain(website) ==
  BeforeSlash(Remove(Remove(website, <<"h", "t", "t", "p", "s", ":", "/", "/">>),
                     <<"h", "t", "t", "p", ":", "/", "/">>))

\* the limiter of all calls
GlobalLimiter == <<"*">>

\* one token taken from the global limiter and one from the domain's limiter
Acquired(taken, domain) ==
  [b \in DOMAIN taken |->
     taken[b] + (IF b = GlobalLimiter THEN 1 ELSE 0) + (IF b = domain THEN 1 ELSE 0)]

----------------------------------------------------------------------------
(* Spec: process_company calls, interleaved at their awaits, over one table *)

NumTasks == 2

Tasks == 1..NumTasks

MaxSimpleRuns == 1

\* a company whose website is empty
CompanyNoSite == [website |-> <<>>, name |-> <<"N">>, industry |-> ItWeb, prefecture |-> <<>>]

TaskCompanies == {CompanyA, CompanyB, CompanyNoSite}

Websites == {c.website : c \in TaskCompanies}

TaskSearchAnswers ==
  { [kind |-> "error", results |-> <<>>],
    [kind |-> "ok", results |-> << [url |-> UrlAbout, title |-> <<"A">>] >>] }

TaskExtractAnswers ==
  { [kind |-> "error", address_lines |-> <<>>],
    [kind |-> "dict", address_lines |-> <<Fuchu>>] }

TaskLLMAnswers ==
  { [kind |-> "error", result |-> GoodDraft],
    [kind |-> "json", result |-> GoodDraft],
    [kind |-> "json", result |-> [GoodDraft EXCEPT !.overview_text = LNone]] }

Limiters ==
  {GlobalLimiter} \cup {extract_apex_domain(w) : w \in Websites}
  \cup {PhaseDomain(w) : w \in Websites}

NoReturn == [status |-> "none", error |-> "none"]

\* a token taken from the global limiter and one from the limiter of a domain
Acquire(domain) == [op |-> "acquire", bucket |-> domain]

\* an outbound call: "status", "search", "extract", "synthesize" or "upsert"
Call(op) == [op |-> op, bucket |-> <<>>]

\* a process_company call not yet made
NoTask ==
  [ pc |-> "idle", company |-> CompanyA, phase_a_result |-> NoUrls,
    phase_b_result |-> EmptyPhaseB, final_record |-> GoodDraft, return |-> NoReturn,
    prior |-> "none", overlap |-> FALSE, wrote |-> FALSE, trace |-> <<>>,
    existing_status |-> "unknown", ok_before |-> FALSE ]

HandlerIdle ==
  /\ store = <<>>
  /\ clock = 0
  /\ stats = NoStats
  /\ acquired = [b \in Limiters |-> 0]
  /\ task = [t \in Tasks |-> NoTask]
  /\ last_outcome = [w \in Websites |-> "none"]
  /\ simple_runs = 0

BatchIdle ==
  /\ processor = "direct"
  /\ companies = <<>>
  /\ futures = <<>>
  /\ returned = <<>>
  /\ results = [total |-> 0, processed |-> 0, success |-> 0, errors |-> 0,
                errors_detail |-> <<>>]
  /\ batch_pc = "idle"

\* the calls in flight for a website
Running(website) ==
  {t \in Tasks : task[t].pc \notin {"idle", "done"} /\ task[t].company.website = website}

\* process_company returns after its last outbound call: the call is over and its
\* status is the website's latest
Return(t, status, error, wrote, op) ==
  /\ task' = [task EXCEPT ![t].pc = "done",
                          ![t].return = [status |-> status, error |-> error],
                          ![t].wrote = wrote,
                          ![t].trace = Append(@, Call(op)),
                          ![t].existing_status = IF op = "status" THEN "ok" ELSE @]
  /\ last_outcome' = [last_outcome EXCEPT ![task[t].company.website] = status]

InitHandler == HandlerIdle /\ PipelineIdle /\ BatchIdle /\ LimiterIdle /\ DriverIdle

\* the table holds a row with status ok for the website, as given or normalized
HoldsOk(rows, website) ==
  \E i \in 1..Len(rows) :
    /\ rows[i].status = "ok"
    /\ rows[i].website.k = "str"
    /\ normalize_url(rows[i].website.v) = normalize_url(website)

\* process_company(company) is called with a website extract_apex_domain accepts
Start(t) ==
  /\ task[t].pc = "idle"
  /\ \E c \in TaskCompanies :
       /\ extract_apex_domain(c.website) # <<>>
       /\ task' = [u \in Tasks |->
                     IF u = t
                     THEN [NoTask EXCEPT !.pc = "acquire", !.company = c,
                                         !.ok_before = HoldsOk(store, c.website),
                                         !.prior = last_outcome[c.website],
                                         !.overlap = Running(c.website) # {}]
                     ELSE IF u \in Running(c.website)
                          THEN [task[u] EXCEPT !.overlap = TRUE]
                          ELSE task[u]]
  /\ UNCHANGED << store, clock, stats, acquired, last_outcome, simple_runs >>
  /\ UNCHANGED << pipelineVars, batchVars, limiterVars, driverVars >>

\* process_company(company) with an empty domain: _handle_error(company_data,
\* "invalid_domain") upserts the error record, whether or not the upsert succeeds
StartInvalidDomain(t) ==
  /\ task[t].pc = "idle"
  /\ \E c \in TaskCompanies, success \in BOOLEAN :
       /\ extract_apex_domain(c.website) = <<>>
       /\ store' = IF success
                   THEN BigQuery_upsert_company(store, TaskHandler_error_record(c),
                                                "invalid_domain", clock + 1)
                   ELSE store
       /\ clock' = IF success THEN clock + 1 ELSE clock
       /\ task' = [task EXCEPT ![t] =
                     [NoTask EXCEPT !.pc = "done", !.company = c,
                                    !.ok_before = HoldsOk(store, c.website),
                                    !.prior = last_outcome[c.website],
                                    !.return = [status |-> "failed",
                                                error |-> "invalid_domain"],
                                    !.wrote = success,
                                    !.trace = <<Call("upsert")>>]]
       /\ last_outcome' = [last_outcome EXCEPT ![c.website] = "failed"]
  /\ UNCHANGED << stats, acquired, simple_runs >>
  /\ UNCHANGED << pipelineVars, batchVars, limiterVars, driverVars >>

\* await self.rate_limiter.acquire_both(domain)
AcquireBoth(t) ==
  /\ task[t].pc = "acquire"
  /\ acquired' = Acquired(acquired, extract_apex_domain(task[t].company.website))
  /\ task' = [task EXCEPT ![t].pc = "check",
                          ![t].trace =
                            Append(@, Acquire(extract_apex_domain(task[t].company.website)))]
  /\ UNCHANGED << store, clock, stats, last_outcome, simple_runs >>
  /\ UNCHANGED << pipelineVars, batchVars, limiterVars, driverVars >>

\* get_company_status(website) returns 'ok', had the call gone on to Phase A
SkipAlreadyOk_goes_on(t) ==
  /\ task[t].pc = "check"
  /\ "ok" \in BigQuery_get_company_status(store, task[t].company.website)
  /\ task' = [task EXCEPT ![t].pc = "phase_a",
                          ![t].trace = Append(@, Call("status")),
                          ![t].existing_status = "ok"]
  /\ UNCHANGED << store, clock, stats, acquired, last_outcome, simple_runs >>
  /\ UNCHANGED << pipelineVars, batchVars, limiterVars, driverVars >>

\* get_company_status(website) returns 'ok': the call counts skipped_already_ok and returns
SkipAlreadyOk(t) ==
  /\ task[t].pc = "check"
  /\ "ok" \in BigQuery_get_company_status(store, task[t].company.website)
  /\ stats' = TaskHandler_update_stats(stats, "skipped_already_ok")
  /\ Return(t, "skipped_already_ok", "none", FALSE, "status")
  /\ UNCHANGED << store, clock, acquired, simple_runs >>
  /\ UNCHANGED << pipelineVars, batchVars, limiterVars, driverVars >>

\* get_company_status(website) returns another status or None: on to Phase A
CheckStatus(t) ==
  /\ task[t].pc = "check"
  /\ \E existing_status \in
         BigQuery_get_company_status(store, task[t].company.website) \cup {QueryFailed} :
       /\ existing_status # "ok"
       /\ task' = [task EXCEPT ![t].pc = "phase_a",
                               ![t].trace = Append(@, Call("status")),
                               ![t].existing_status = existing_status]
  /\ UNCHANGED << store, clock, stats, acquired, last_outcome, simple_runs >>
  /\ UNCHANGED << pipelineVars, batchVars, limiterVars, driverVars >>

\* phase_a_result = await phase_a_search(company_data, self.pplx_client)
TaskPhaseA(t) ==
  /\ task[t].pc = "phase_a"
  /\ \E answer \in TaskSearchAnswers :
       task' = [task EXCEPT ![t].pc = "phase_b",
                            ![t].phase_a_result = phase_a_search(task[t].company, answer),
                            ![t].trace =
                              @ \o << Acquire(PhaseDomain(task[t].company.website)),
                                      Call("search") >>]
  /\ acquired' = Acquired(acquired, PhaseDomain(task[t].company.website))
  /\ UNCHANGED << store, clock, stats, last_outcome, simple_runs >>
  /\ UNCHANGED << pipelineVars, batchVars, limiterVars, driverVars >>

\* phase_b_extract with no candidate URL, had it sent the call back to the search
TaskPhaseBNoUrls_retries_search(t) ==
  /\ task[t].pc = "phase_b"
  /\ AllUrls(task[t].phase_a_result) = <<>>
  /\ task' = [task EXCEPT ![t].pc = "phase_a"]
  /\ UNCHANGED << store, clock, stats, acquired, last_outcome, simple_runs >>
  /\ UNCHANGED << pipelineVars, batchVars, limiterVars, driverVars >>

\* phase_b_result = await phase_b_extract(...) with no candidate URL
TaskPhaseBNoUrls(t) ==
  /\ task[t].pc = "phase_b"
  /\ AllUrls(task[t].phase_a_result) = <<>>
  /\ task' = [task EXCEPT ![t].pc = "phase_c",
                          ![t].phase_b_result =
                            phase_b_extract(task[t].company, task[t].phase_a_result,
                                            [kind |-> "error", address_lines |-> <<>>])]
  /\ UNCHANGED << store, clock, stats, acquired, last_outcome, simple_runs >>
  /\ UNCHANGED << pipelineVars, batchVars, limiterVars, driverVars >>

\* phase_b_result = await phase_b_extract(...) with candidate URLs
TaskPhaseBExtract(t) ==
  /\ task[t].pc = "phase_b"
  /\ AllUrls(task[t].phase_a_result) # <<>>
  /\ \E answer \in TaskExtractAnswers :
       task' = [task EXCEPT ![t].pc = "phase_c",
                            ![t].phase_b_result =
                              phase_b_extract(task[t].company, task[t].phase_a_result,
                                              answer),
                            ![t].trace =
                              @ \o << Acquire(PhaseDomain(task[t].company.website)),
                                      Call("extract") >>]
  /\ acquired' = Acquired(acquired, PhaseDomain(task[t].company.website))
  /\ UNCHANGED << store, clock, stats, last_outcome, simple_runs >>
  /\ UNCHANGED << pipelineVars, batchVars, limiterVars, driverVars >>

\* phase_c_output = await self.phase_c.format_and_synthesize(...), then final_record
TaskPhaseC(t) ==
  /\ task[t].pc = "phase_c"
  /\ \E answer \in TaskLLMAnswers :
       \E formatted_data \in {OpenAI_format_and_synthesize(task[t].company, answer)} :
         \E keywords \in PhaseC_extract_news_keywords(formatted_data.recent_news.v) :
           task' = [task EXCEPT
                      ![t].pc = "upsert",
                      ![t].trace = Append(@, Call("synthesize")),
                      ![t].final_record =
                        TaskHandler_final_record(
                          PhaseC_format_and_synthesize(task[t].company,
                                                       task[t].phase_b_result,
                                                       formatted_data, keywords))]
  /\ UNCHANGED << store, clock, stats, acquired, last_outcome, simple_runs >>
  /\ UNCHANGED << pipelineVars, batchVars, limiterVars, driverVars >>

\* success = await self.bigquery.upsert_company(final_record), success true
UpsertOk(t) ==
  /\ task[t].pc = "upsert"
  /\ store' = BigQuery_upsert_company(store, task[t].final_record, "none", clock + 1)
  /\ clock' = clock + 1
  /\ stats' = TaskHandler_update_stats(stats, "ok")
  /\ Return(t, "ok", "none", TRUE, "upsert")
  /\ UNCHANGED << acquired, simple_runs >>
  /\ UNCHANGED << pipelineVars, batchVars, limiterVars, driverVars >>

\* upsert_company, had its exception left process_company: no outcome is returned
UpsertFailed_propagates(t) ==
  /\ task[t].pc = "upsert"
  /\ stats' = TaskHandler_update_stats(stats, "failed")
  /\ Return(t, "none", "none", FALSE, "upsert")
  /\ UNCHANGED << store, clock, acquired, simple_runs >>
  /\ UNCHANGED << pipelineVars, batchVars, limiterVars, driverVars >>

\* upsert_company caught an exception and returned False: nothing is stored
UpsertFailed(t) ==
  /\ task[t].pc = "upsert"
  /\ stats' = TaskHandler_update_stats(stats, "failed")
  /\ Return(t, "failed", "bigquery_save_failed", FALSE, "upsert")
  /\ UNCHANGED << store, clock, acquired, simple_runs >>
  /\ UNCHANGED << pipelineVars, batchVars, limiterVars, driverVars >>

\* enriched_data of SimpleProcessor._process_single_company_async when the Sonar
\* search succeeded with no field found
SimpleProcessor_enriched_data(company_data) ==
  [ website |-> Str(company_data.website),
    name |-> Str(company_data.name),
    industry |-> Str(company_data.industry),
    status |-> "ok",
    hq_address_raw |-> None,
    prefecture_name |-> None,
    overview_text |-> LNone,
    services_text |-> LStr(0),
    products_text |-> LStr(0),
    pain_hypotheses |-> List(<<>>),
    personalization_notes |-> LStr(0),
    employee_count |-> NoCount,
    recent_news |-> NoList ]

\* SimpleProcessor stores a company of the same table through the same upsert_company
SimpleProcessorStore ==
  /\ simple_runs < MaxSimpleRuns
  /\ \E c \in TaskCompanies :
       store' = BigQuery_upsert_company(store, SimpleProcessor_enriched_data(c),
                                        "perplexity_sonar", clock + 1)
  /\ clock' = clock + 1
  /\ simple_runs' = simple_runs + 1
  /\ UNCHANGED << stats, acquired, task, last_outcome >>
  /\ UNCHANGED << pipelineVars, batchVars, limiterVars, driverVars >>

Next ==
  \/ \E t \in Tasks :
       \/ Start(t)
       \/ StartInvalidDomain(t)
       \/ AcquireBoth(t)
       \/ SkipAlreadyOk(t)
       \/ CheckStatus(t)
       \/ TaskPhaseA(t)
       \/ TaskPhaseBNoUrls(t)
       \/ TaskPhaseBExtract(t)
       \/ TaskPhaseC(t)
       \/ UpsertOk(t)
       \/ UpsertFailed(t)
  \/ SimpleProcessorStore

Spec == InitHandler /\ [][Next]_vars

----------------------------------------------------------------------------
(* process_company against the Store *)

Done(t) == task[t].pc = "done"

\* the rows of the table whose website is the given one once normalized
RowsOf(website) ==
  {i \in 1..Len(store) : store[i].website.k = "str"
                         /\ normalize_url(store[i].website.v) = normalize_url(website)}

StoreStatuses == {"ok", "parse_error", "failed", "skipped_already_ok"}

\* the run of t began after a run for the same company had returned ok, no other
\* run for that company was in flight with it, and nothing else wrote to the table
SecondRun(t) ==
  Done(t) /\ task[t].prior = "ok" /\ ~task[t].overlap /\ simple_runs = 0

\* C1: a process_company run that follows a run for the same CompanyInput which
\* returned ok returns skipped_already_ok and writes nothing to the Store.
C1_SecondRunSkipped ==
  \A t \in Tasks :
    SecondRun(t) => task[t].return.status = "skipped_already_ok" /\ ~task[t].wrote

\* every run of the batch is over, and each one stored its record or skipped
BatchStored ==
  \A t \in Tasks : Done(t) /\ (task[t].wrote \/ task[t].return.status = "skipped_already_ok")

\* C2: once every run of the batch is over, the Store holds for each company of the
\* batch a record for its website whose status is ok, parse_error, failed or
\* skipped_already_ok.
C2_EveryCompanyHasStatus ==
  BatchStored =>
    \A t \in Tasks :
      /\ RowsOf(task[t].company.website) # {}
      /\ \A i \in RowsOf(task[t].company.website) : store[i].status \in StoreStatuses

\* C3: whatever runs of process_company have happened, the Store holds at most one
\* record for a company's website.
C3_OneRecordPerWebsite ==
  simple_runs = 0 => \A c \in TaskCompanies : Cardinality(RowsOf(c.website)) <= 1

\* C12: whenever process_company has ended with outcome failed (an invalid domain, an
\* exception in a phase, or a failed Store write), a record for the company's website
\* with status failed and the error detail has been written to the Store.
C12_FailedOutcomeHasErrorRecord ==
  \A t \in Tasks : (Done(t) /\ task[t].return.status = "failed") => task[t].wrote

\* the position of a step in the order Phase A, Phase B, Phase C, Store
StepRank(op) ==
  CASE op = "search" -> 1
    [] op = "extract" -> 2
    [] op = "synthesize" -> 3
    [] op = "upsert" -> 4
    [] OTHER -> 0

IsStep(call) == StepRank(call.op) > 0

\* the steps a process_company call has made so far, in the order it made them
Steps(t) == SelectSeq(task[t].trace, IsStep)

Skipped(t) == task[t].return.status = "skipped_already_ok"

\* the call went through the phases: it neither skipped nor stopped at the domain
WentThrough(t) == Done(t) /\ ~Skipped(t) /\ task[t].return.error # "invalid_domain"

C14_SkipConsumesNoToken ==
  \A t \in Tasks :
    (Done(t) /\ Skipped(t)) =>
      \A i \in 1..Len(task[t].trace) : task[t].trace[i].op # "acquire"

\* C15: every outbound call made for a company (search, extraction, synthesis, Store
\* write) starts only after the task took, for this call, a token from the global
\* bucket and one from a per-domain bucket of the company.
C15_EveryCallAcquiresTokens ==
  \A t \in Tasks :
    \A i \in 1..Len(task[t].trace) :
      IsStep(task[t].trace[i]) => (i > 1 /\ task[t].trace[i - 1].op = "acquire")

\* the statuses an outcome of process_company carries
OutcomeStatuses == {"ok", "failed", "skipped_already_ok"}

\* C21: process_company never propagates an exception: whatever providers fail and
\* whether get_company_status or upsert_company fails, a call that is over has
\* returned an outcome that carries a status.
C21_AlwaysReturnsOutcome ==
  \A t \in Tasks : Done(t) => task[t].return.status \in OutcomeStatuses

\* a call whose status lookup failed or found nothing, whose search gave no URL and
\* whose Store write failed has returned failed
C21_Witness ==
  \E t \in Tasks :
    /\ Done(t)
    /\ task[t].existing_status = QueryFailed
    /\ AllUrls(task[t].phase_a_result) = <<>>
    /\ task[t].return = [status |-> "failed", error |-> "bigquery_save_failed"]

\* C23: when get_company_status returns ok for a company, process_company calls none
\* of the SearchProvider, the ExtractionProvider, the SynthesisProvider and the
\* Store's upsert for it, and returns skipped_already_ok having written nothing.
C23_OkMeansSkippedUntouched ==
  \A t \in Tasks :
    task[t].existing_status = "ok" =>
      /\ Done(t)
      /\ Skipped(t)
      /\ Steps(t) = <<>>
      /\ ~task[t].wrote

\* a call found the status ok in a table that holds a row, and has returned
C23_Witness ==
  \E t \in Tasks :
    /\ task[t].existing_status = "ok"
    /\ Done(t)
    /\ RowsOf(task[t].company.website) # {}

\* the per-domain buckets a call has taken a token from so far
BucketsOf(t) ==
  {task[t].trace[i].bucket : i \in {j \in 1..Len(task[t].trace) : task[t].trace[j].op = "acquire"}}

\* C27: all rate-limited calls made for one company take their per-domain token from
\* one and the same bucket, the bucket of the apex domain of its website.
C27_OneDomainBucketPerCompany ==
  \A t \in Tasks : Cardinality(BucketsOf(t)) <= 1

\* C28: when two process_company calls for the same website run concurrently and
\* the stored status is not ok, at most one of them goes through Phases A to C and
\* writes the record.
C28_OneWriterPerWebsite ==
  \A t, u \in Tasks :
    (/\ t # u
     /\ task[t].company.website = task[u].company.website
     /\ task[t].overlap
     /\ task[u].overlap
     /\ WentThrough(t)
     /\ WentThrough(u))
      => ~(task[t].wrote /\ task[u].wrote)

\* the calls that are over
Completed == {t \in Tasks : Done(t)}

\* C29: after any sequence of process_company calls, stats has total_processed =
\* successful + failed = the number of completed calls, and by_status[s] is the
\* number of calls that finished with status s.
C29_StatsCountCalls ==
  simple_runs = 0 =>
    /\ stats.total_processed = Cardinality(Completed)
    /\ stats.total_processed = stats.successful + stats.failed
    /\ \A status \in OutcomeStatuses :
         stats.by_status[status]
           = Cardinality({t \in Completed : task[t].return.status = status})

\* C30: once the Store holds a record with status ok for a website, no step of a
\* process_company call that began later for that website changes the record,
\* whatever the call's outcome and also when its status lookup fails.
C30_OkRecordNeverOverwritten ==
  [][\A t \in Tasks :
       (task'[t] # task[t] /\ task'[t].ok_before)
         => \A i \in RowsOf(task'[t].company.website) :
              store[i].status = "ok" => (i <= Len(store') /\ store'[i] = store[i])]_vars


----------------------------------------------------------------------------
(* handlers/direct_processor.py, handlers/simple_processor.py: one batch *)

BatchSize == 3

MaxWorkers == 2

\* the companies a batch is drawn from, in the order they are submitted
BatchCompanies == <<CompanyA, CompanyB, CompanyC>>

Batch(n) == [i \in 1..n |-> BatchCompanies[((i - 1) % Len(BatchCompanies)) + 1]]

\* what the providers and the Store do for one company of a DirectProcessor batch
DirectFates == [search : {"ok", "raises"}, upsert : BOOLEAN]

\* and of a SimpleProcessor batch
SimpleFates == [sonar : {"success", "error", "raises"}, fallback : {"ok", "raises"},
                upsert : BOOLEAN]

\* DirectProcessor._process_single_company: upsert_company's answer, False when a step raised
DirectProcessor_process_single_company(fate) ==
  IF fate.search = "raises" THEN FALSE ELSE fate.upsert

\* SimpleProcessor._process_single_company: the Sonar record's upsert when the Sonar
\* search succeeded, else the fallback path's, False when that path raised
SimpleProcessor_process_single_company(fate) ==
  IF fate.sonar = "success" THEN fate.upsert
  ELSE IF fate.fallback = "raises" THEN FALSE
  ELSE fate.upsert

NoResults ==
  [total |-> 0, processed |-> 0, success |-> 0, errors |-> 0, errors_detail |-> <<>>]

\* the loop body without the errors count of a failed company
Collected_success_only(res, company_data, success) ==
  [res EXCEPT !.processed = @ + 1,
              !.success = IF success THEN @ + 1 ELSE @]

\* the body of the as_completed loop for one future whose result is success
Collected(res, company_data, success) ==
  [res EXCEPT !.processed = @ + 1,
              !.success = IF success THEN @ + 1 ELSE @,
              !.errors = IF success THEN @ ELSE @ + 1,
              !.errors_detail = IF success THEN @ ELSE Append(@, company_data.name)]

InitBatch ==
  /\ processor \in {"direct", "simple"}
  /\ \E n \in 0..BatchSize :
       /\ companies = Batch(n)
       /\ futures = [i \in 1..n |-> "queued"]
       /\ returned = [i \in 1..n |-> FALSE]
       /\ results = [NoResults EXCEPT !.total = n]
  /\ batch_pc = "running"
  /\ HandlerIdle
  /\ PipelineIdle
  /\ LimiterIdle
  /\ DriverIdle

Queued == {i \in 1..Len(futures) : futures[i] = "queued"}

\* a worker thread of the pool takes the next submitted company
WorkerStart ==
  /\ batch_pc = "running"
  /\ Queued # {}
  /\ Cardinality({i \in 1..Len(futures) : futures[i] = "running"}) < MaxWorkers
  /\ futures' = [futures EXCEPT ![Min(Queued)] = "running"]
  /\ UNCHANGED << processor, companies, returned, results, batch_pc >>
  /\ UNCHANGED << pipelineVars, handlerVars, limiterVars, driverVars >>

\* DirectProcessor._process_single_company(company) returns in its thread
DirectWorker(i) ==
  /\ processor = "direct"
  /\ i \in DOMAIN futures
  /\ futures[i] = "running"
  /\ \E fate \in DirectFates :
       returned' = [returned EXCEPT ![i] = DirectProcessor_process_single_company(fate)]
  /\ futures' = [futures EXCEPT ![i] = "done"]
  /\ UNCHANGED << processor, companies, results, batch_pc >>
  /\ UNCHANGED << pipelineVars, handlerVars, limiterVars, driverVars >>

\* SimpleProcessor._process_single_company(company) returns in its thread
SimpleWorker(i) ==
  /\ processor = "simple"
  /\ i \in DOMAIN futures
  /\ futures[i] = "running"
  /\ \E fate \in SimpleFates :
       returned' = [returned EXCEPT ![i] = SimpleProcessor_process_single_company(fate)]
  /\ futures' = [futures EXCEPT ![i] = "done"]
  /\ UNCHANGED << processor, companies, results, batch_pc >>
  /\ UNCHANGED << pipelineVars, handlerVars, limiterVars, driverVars >>

\* as_completed yields a finished future: one pass of the loop body
Collect(i) ==
  /\ batch_pc = "running"
  /\ i \in DOMAIN futures
  /\ futures[i] = "done"
  /\ results' = Collected(results, companies[i], returned[i])
  /\ futures' = [futures EXCEPT ![i] = "collected"]
  /\ UNCHANGED << processor, companies, returned, batch_pc >>
  /\ UNCHANGED << pipelineVars, handlerVars, limiterVars, driverVars >>

\* the loop is over: return results
ReturnResults ==
  /\ batch_pc = "running"
  /\ \A i \in 1..Len(futures) : futures[i] = "collected"
  /\ batch_pc' = "returned"
  /\ UNCHANGED << processor, companies, futures, returned, results >>
  /\ UNCHANGED << pipelineVars, handlerVars, limiterVars, driverVars >>

NextBatch ==
  \/ WorkerStart
  \/ \E i \in 1..BatchSize :
       \/ DirectWorker(i)
       \/ SimpleWorker(i)
       \/ Collect(i)
  \/ ReturnResults

SpecBatch == InitBatch /\ [][NextBatch]_vars

\* C4: when process_companies_direct or process_companies_simple returns, processed
\* is the number of input companies and success + errors is processed, whichever
\* companies failed.
C4_BatchIsolation ==
  batch_pc = "returned" =>
    /\ results.processed = Len(companies)
    /\ results.success + results.errors = results.processed
    /\ results.total = Len(companies)

\* a batch returned in which the first company failed and a later one succeeded
C4_Witness ==
  /\ batch_pc = "returned"
  /\ Len(companies) >= 2
  /\ ~returned[1]
  /\ \E i \in 2..Len(companies) : returned[i]
  /\ results.errors >= 1 /\ results.success >= 1

----------------------------------------------------------------------------
(* SpecPipeline: process_company's three phases for one company *)

InitPipeline ==
  /\ stage = "start"
  /\ company \in Companies
  /\ search = NoSearch
  /\ phase_a_result = NoUrls
  /\ extract_calls = <<>>
  /\ phase_b_result = EmptyPhaseB
  /\ llm = NoLLM
  /\ news_keywords = <<>>
  /\ phase_c_output = NoOutput
  /\ HandlerIdle
  /\ BatchIdle
  /\ LimiterIdle
  /\ DriverIdle

\* phase_a_search(company_data, pplx_client)
PhaseA ==
  /\ stage = "start"
  /\ \E answer \in SearchAnswers :
       /\ search' = answer
       /\ phase_a_result' = phase_a_search(company, answer)
  /\ stage' = "searched"
  /\ UNCHANGED << company, extract_calls, phase_b_result, llm, news_keywords, phase_c_output >>
  /\ UNCHANGED << handlerVars, batchVars, limiterVars, driverVars >>

\* phase_b_extract with no candidate URL: no provider call
PhaseBNoUrls ==
  /\ stage = "searched"
  /\ AllUrls(phase_a_result) = <<>>
  /\ phase_b_result' = phase_b_extract(company, phase_a_result,
                                       [kind |-> "error", address_lines |-> <<>>])
  /\ stage' = "extracted"
  /\ UNCHANGED << company, search, phase_a_result, extract_calls, llm, news_keywords,
                  phase_c_output >>
  /\ UNCHANGED << handlerVars, batchVars, limiterVars, driverVars >>

\* phase_b_extract with candidate URLs: one call of pplx_client.extract
PhaseBExtract ==
  /\ stage = "searched"
  /\ AllUrls(phase_a_result) # <<>>
  /\ \E urls_to_extract \in UrlsToExtract(phase_a_result), answer \in ExtractAnswers :
       /\ extract_calls' = Append(extract_calls, urls_to_extract)
       /\ phase_b_result' = phase_b_extract(company, phase_a_result, answer)
  /\ stage' = "extracted"
  /\ UNCHANGED << company, search, phase_a_result, llm, news_keywords, phase_c_output >>
  /\ UNCHANGED << handlerVars, batchVars, limiterVars, driverVars >>

\* PhaseC.format_and_synthesize(company_data, phase_a_result, phase_b_result)
PhaseCSynthesize ==
  /\ stage = "extracted"
  /\ \E answer \in LLMAnswers :
       \E formatted_data \in {OpenAI_format_and_synthesize(company, answer)} :
         \E keywords \in PhaseC_extract_news_keywords(formatted_data.recent_news.v) :
           /\ llm' = answer
           /\ news_keywords' = keywords
           /\ phase_c_output' =
                PhaseC_format_and_synthesize(company, phase_b_result, formatted_data,
                                             keywords)
  /\ stage' = "synthesized"
  /\ UNCHANGED << company, search, phase_a_result, extract_calls, phase_b_result >>
  /\ UNCHANGED << handlerVars, batchVars, limiterVars, driverVars >>

NextPipeline == PhaseA \/ PhaseBNoUrls \/ PhaseBExtract \/ PhaseCSynthesize

SpecPipeline == InitPipeline /\ [][NextPipeline]_vars

----------------------------------------------------------------------------
(* Phase A, B, C: the record Phase C returns against the draft it received *)

\* the record of phase_c_output
Record == phase_c_output.enriched_data

\* the SynthesisProvider's parsed draft
Draft == llm.result

Synthesized == stage = "synthesized"

\* the draft as OpenAIClient handed it to Phase C, and after _post_process_data
Formatted == OpenAI_format_and_synthesize(company, llm)

PostProcessed ==
  PhaseC_post_process_data(Formatted, company, phase_b_result, news_keywords)

Distinct(hs) == \A i, j \in 1..Len(hs) : hs[i] = hs[j] => i = j

\* website, name and industry are there
RequiredFields(r) == r.website.k = "str" /\ r.name.k = "str" /\ r.industry.k = "str"

\* C5: when the SearchProvider raises, phase_a_search returns the empty
\* CandidateURLSet, Phase B runs with it (no provider call, empty result), and the
\* record Phase C returns has its required fields and a status other than ok.
C5_GracefulDegradation ==
  (Synthesized /\ search.kind = "error") =>
     /\ phase_a_result = NoUrls
     /\ extract_calls = <<>> /\ phase_b_result = EmptyPhaseB
     /\ RequiredFields(Record)
     /\ Record.status # "ok"

\* the search raised and the pipeline ran to the end of Phase C
C5_Witness == Synthesized /\ search.kind = "error" /\ phase_b_result = EmptyPhaseB

\* C6: a draft whose overview_text is shorter than 300 characters, empty or absent
\* leaves Phase C with an overview_text of at least 300 characters.
C6_OverviewAtLeast300 ==
  (Synthesized /\ llm.kind = "json"
     /\ (Draft.overview_text.k # "str" \/ Draft.overview_text.len < 300)) =>
     (Record.overview_text.k = "str" /\ Record.overview_text.len >= 300)

\* a short overview went through _expand_overview_text
C6_Witness ==
  /\ Synthesized /\ llm.kind = "json" /\ phase_c_output.status = "success"
  /\ Draft.overview_text = LStr(120)
  /\ Record.overview_text.len >= 300

\* the canonical prefecture names a text contains
NamesIn(text) == {i \in 1..Len(PREFECTURES) : Contains(text, PREFECTURES[i])}

\* C7: a draft without prefecture_name whose hq_address_raw contains a canonical
\* prefecture name leaves Phase C with prefecture_name equal to such a name.
C7_PrefectureFromAddress ==
  (Synthesized /\ llm.kind = "json" /\ ~Truthy(Draft.prefecture_name)
     /\ Draft.hq_address_raw.k = "str" /\ NamesIn(Draft.hq_address_raw.v) # {}) =>
     \E i \in NamesIn(Draft.hq_address_raw.v) : Record.prefecture_name = Str(PREFECTURES[i])

\* such a draft went through _process_address_info
C7_Witness ==
  /\ Synthesized /\ llm.kind = "json" /\ phase_c_output.status = "success"
  /\ Draft.prefecture_name = Absent /\ Draft.hq_address_raw = Str(OsakaCity)

\* C8: a draft with fewer than three pain_hypotheses, or none, leaves Phase C with
\* three to five pain_hypotheses, no two of them equal.
C8_PainHypothesesRepaired ==
  (Synthesized /\ llm.kind = "json"
     /\ (Draft.pain_hypotheses.k # "list" \/ Len(Draft.pain_hypotheses.v) < 3)) =>
     /\ Record.pain_hypotheses.k = "list"
     /\ Len(Record.pain_hypotheses.v) \in 3..5
     /\ Distinct(Record.pain_hypotheses.v)

\* a draft with two hypotheses was post-processed and the list generated
C8_Witness ==
  /\ Synthesized /\ llm.kind = "json" /\ phase_c_output.status = "success"
  /\ Draft.pain_hypotheses = List(DraftHypotheses(2))
  /\ Record.pain_hypotheses.v = generate_pain_hypotheses(company.industry, NoCount, <<>>)

\* the repairs of _process_address_info, _post_process_data and "if not is_valid:"
AddressFromExtraction ==
  AddressFromPhaseB(normalize_company_data(Formatted),
                    Strip(JoinSpace(AddressLines(phase_b_result))))

PrefectureDerived == Record.prefecture_name # AddressFromExtraction.prefecture_name

AddressSynthesized == Record.hq_address_raw # AddressFromExtraction.hq_address_raw

PainGenerated ==
  PainInsufficient(PhaseC_process_address_info(normalize_company_data(Formatted),
                                               company, phase_b_result))

OverviewExpanded == Record.overview_text # PostProcessed.overview_text

RepairApplied ==
  OverviewExpanded \/ AddressSynthesized \/ PrefectureDerived \/ PainGenerated

C10_SynthesisFailureGivesFailedFallback ==
  (Synthesized /\ llm.kind = "error") =>
     /\ [Record EXCEPT !.status = "failed"]
          = [PhaseC_get_fallback_result(company) EXCEPT !.status = "failed"]
     /\ Record.status = "failed"

\* the provider raised and Phase C returned
C10_Witness == Synthesized /\ llm.kind = "error"


\* the 47 canonical prefecture names
CanonicalPrefectures == {PREFECTURES[i] : i \in 1..Len(PREFECTURES)}

\* C17: every record Phase C returns, on the normal path and on the fallback path of
\* its "except", has a prefecture_name that is one of the 47 canonical names or the
\* sentinel 不明, and never the empty string.
C17_PrefectureCanonicalOrUnknown ==
  Synthesized =>
    /\ Record.prefecture_name.k = "str"
    /\ Record.prefecture_name.v \in CanonicalPrefectures \cup {Fumei}

\* the placeholder phrases 要確認, 本社所在地, 推測, 不明
BannedPhrases == {YouKakunin, HonshaShozaichi, Suisoku, Fumei}

HasBannedPhrase(address) == \E phrase \in BannedPhrases : Contains(address, phrase)

\* C18: no record that leaves Phase C with status ok has an hq_address_raw that
\* contains a banned placeholder phrase.
C18_NoPlaceholderInOkAddress ==
  (Synthesized /\ Record.status = "ok") =>
    ~(Record.hq_address_raw.k = "str" /\ HasBannedPhrase(Record.hq_address_raw.v))

\* C19: every record Phase C returns, whatever the draft (more than five hypotheses
\* included), has between three and five pain_hypotheses.
C19_PainHypothesesThreeToFive ==
  Synthesized =>
    /\ Record.pain_hypotheses.k = "list"
    /\ Len(Record.pain_hypotheses.v) \in 3..5


----------------------------------------------------------------------------
(* utils/rate_limiter.py: one RateLimiter, its asyncio.Lock and its callers *)

MaxRate == 2

MaxBurst == 2

\* the ticks during which acquire calls are issued
IssueWindow == 1

\* the ticks a sleeping caller may resume late by
MaxOversleep == 1

\* the ticks the clock is followed for: long enough for every caller to sleep in turn
MaxTime == IssueWindow + NumCallers * (TicksPerSecond + MaxOversleep)

\* the place in the order of arrival of the next acquire call
NextTicket == Cardinality({c \in Callers : caller[c].pc # "idle"}) + 1

\* the least whole number of ticks that is no shorter than a / b ticks
CeilDiv(a, b) == (a + b - 1) \div b

\* _refill_tokens without the cap of max_burst
RateLimiter_refill_tokens_uncapped(tok, last, t, rate, burst) ==
  tok + (t - last) * rate

\* _refill_tokens: min(max_burst, tokens + time_passed * rate_per_second), in token units
RateLimiter_refill_tokens(tok, last, t, rate, burst) ==
  Min({burst * TokenUnit, tok + (t - last) * rate})

\* self.tokens once _refill_tokens() has run at the present time
Refilled ==
  RateLimiter_refill_tokens(tokens, last_refill_time, monotonic, rate_per_second,
                            max_burst)

\* the tick asyncio.sleep((1 - self.tokens) / self.rate_per_second) is over at the earliest
WakeAt == monotonic + CeilDiv(TokenUnit - Refilled, rate_per_second)

\* with self.lock held, had the token been taken without the while loop
TakeToken_without_wait(c, call) ==
  /\ tokens' = Refilled - TokenUnit
  /\ last_refill_time' = monotonic
  /\ lock' = 0
  /\ caller' = [caller EXCEPT ![c] =
                  [call EXCEPT !.pc = "granted", !.granted_at = monotonic,
                               !.spent = @ + 1]]

\* with self.lock held: _refill_tokens(), then either self.tokens -= 1 and the lock is
\* released, or self.tokens < 1 and the caller sleeps holding the lock
TakeToken(c, call) ==
  /\ tokens' = IF Refilled >= TokenUnit THEN Refilled - TokenUnit ELSE Refilled
  /\ last_refill_time' = monotonic
  /\ lock' = IF Refilled >= TokenUnit THEN 0 ELSE c
  /\ caller' = [caller EXCEPT ![c] =
                  IF Refilled >= TokenUnit
                  THEN [call EXCEPT !.pc = "granted", !.granted_at = monotonic,
                                    !.spent = @ + 1]
                  ELSE [call EXCEPT !.pc = "sleeping", !.wake_at = WakeAt]]

\* RateLimiter(rate_per_second, max_burst): a full bucket, nobody calling
InitLimiter ==
  /\ rate_per_second \in 1..MaxRate
  /\ max_burst \in 1..MaxBurst
  /\ tokens = max_burst * TokenUnit
  /\ last_refill_time = 0
  /\ monotonic = 0
  /\ lock = 0
  /\ lock_waiters = <<>>
  /\ caller = [c \in Callers |-> NoCall]
  /\ PipelineIdle
  /\ HandlerIdle
  /\ BatchIdle
  /\ DriverIdle

\* acquire() finds the lock free and nobody queued: it holds the lock at once
AcquireFree(c) ==
  /\ caller[c].pc = "idle"
  /\ monotonic <= IssueWindow
  /\ lock = 0
  /\ lock_waiters = <<>>
  /\ TakeToken(c, [caller[c] EXCEPT !.issued_at = monotonic, !.ticket = NextTicket])
  /\ UNCHANGED << rate_per_second, max_burst, monotonic, lock_waiters >>
  /\ UNCHANGED << pipelineVars, handlerVars, batchVars, driverVars >>

\* acquire() finds the lock held, or callers queued before it: it queues on the lock
AcquireQueues(c) ==
  /\ caller[c].pc = "idle"
  /\ monotonic <= IssueWindow
  /\ lock # 0 \/ lock_waiters # <<>>
  /\ lock_waiters' = Append(lock_waiters, c)
  /\ caller' = [caller EXCEPT ![c].pc = "queued", ![c].issued_at = monotonic,
                              ![c].ticket = NextTicket]
  /\ UNCHANGED << rate_per_second, max_burst, tokens, last_refill_time, monotonic, lock >>
  /\ UNCHANGED << pipelineVars, handlerVars, batchVars, driverVars >>

\* the lock was released, had the caller queued last resumed holding it
LockHandoff_last_first(c) ==
  /\ caller[c].pc = "queued"
  /\ lock = 0
  /\ lock_waiters # <<>>
  /\ lock_waiters[Len(lock_waiters)] = c
  /\ lock_waiters' = SubSeq(lock_waiters, 1, Len(lock_waiters) - 1)
  /\ TakeToken(c, caller[c])
  /\ UNCHANGED << rate_per_second, max_burst, monotonic >>
  /\ UNCHANGED << pipelineVars, handlerVars, batchVars, driverVars >>

\* the lock was released and the first queued caller resumes holding it
LockHandoff(c) ==
  /\ caller[c].pc = "queued"
  /\ lock = 0
  /\ lock_waiters # <<>>
  /\ Head(lock_waiters) = c
  /\ lock_waiters' = Tail(lock_waiters)
  /\ TakeToken(c, caller[c])
  /\ UNCHANGED << rate_per_second, max_burst, monotonic >>
  /\ UNCHANGED << pipelineVars, handlerVars, batchVars, driverVars >>

\* asyncio.sleep returns: _refill_tokens() and the while test again
Wake(c) ==
  /\ caller[c].pc = "sleeping"
  /\ monotonic >= caller[c].wake_at
  /\ TakeToken(c, caller[c])
  /\ UNCHANGED << rate_per_second, max_burst, monotonic, lock_waiters >>
  /\ UNCHANGED << pipelineVars, handlerVars, batchVars, driverVars >>

\* the caller is cancelled in asyncio.sleep, had the lock stayed with it
CancelSleeping_keeps_lock(c) ==
  /\ caller[c].pc = "sleeping"
  /\ caller' = [caller EXCEPT ![c].pc = "cancelled"]
  /\ UNCHANGED << rate_per_second, max_burst, tokens, last_refill_time, monotonic, lock,
                  lock_waiters >>
  /\ UNCHANGED << pipelineVars, handlerVars, batchVars, driverVars >>

\* the caller is cancelled in asyncio.sleep: CancelledError leaves "async with
\* self.lock", which releases the lock, and self.tokens -= 1 is not reached
CancelSleeping(c) ==
  /\ caller[c].pc = "sleeping"
  /\ lock' = 0
  /\ caller' = [caller EXCEPT ![c].pc = "cancelled"]
  /\ UNCHANGED << rate_per_second, max_burst, tokens, last_refill_time, monotonic,
                  lock_waiters >>
  /\ UNCHANGED << pipelineVars, handlerVars, batchVars, driverVars >>

\* the caller is cancelled while queued on the lock: it leaves the queue
CancelQueued(c) ==
  /\ caller[c].pc = "queued"
  /\ lock_waiters' = SelectSeq(lock_waiters, LAMBDA d : d # c)
  /\ caller' = [caller EXCEPT ![c].pc = "cancelled"]
  /\ UNCHANGED << rate_per_second, max_burst, tokens, last_refill_time, monotonic, lock >>
  /\ UNCHANGED << pipelineVars, handlerVars, batchVars, driverVars >>

\* time passes while a call waits or may still be issued: a sleep is over at most
\* MaxOversleep ticks late, and the caller the lock was handed to resumes in the
\* same tick
Tick ==
  /\ monotonic < MaxTime
  /\ \E c \in Callers :
       \/ caller[c].pc \in {"queued", "sleeping"}
       \/ caller[c].pc = "idle" /\ monotonic <= IssueWindow
  /\ \A c \in Callers :
       caller[c].pc = "sleeping" => monotonic < caller[c].wake_at + MaxOversleep
  /\ ~(lock = 0 /\ lock_waiters # <<>>)
  /\ monotonic' = monotonic + 1
  /\ UNCHANGED << rate_per_second, max_burst, tokens, last_refill_time, lock,
                  lock_waiters, caller >>
  /\ UNCHANGED << pipelineVars, handlerVars, batchVars, driverVars >>

NextLimiter ==
  \/ \E c \in Callers : AcquireFree(c)
  \/ \E c \in Callers : AcquireQueues(c)
  \/ \E c \in Callers : LockHandoff(c)
  \/ \E c \in Callers : Wake(c)
  \/ \E c \in Callers : CancelSleeping(c)
  \/ \E c \in Callers : CancelQueued(c)
  \/ Tick

SpecLimiter == InitLimiter /\ [][NextLimiter]_vars

\* the event loop runs what is ready: a caller whose sleep is over resumes, the caller
\* the lock was handed to resumes, and the clock goes on
SpecLimiterFair ==
  /\ SpecLimiter
  /\ WF_vars(Tick)
  /\ \A c \in Callers : WF_vars(Wake(c)) /\ WF_vars(LockHandoff(c))

\* the callers whose acquire call has been made
Issued == {c \in Callers : caller[c].pc # "idle"}

\* every call made so far was made at the same instant, on the bucket still full from
\* its construction, and every one of them has its token
ConcurrentBurst ==
  /\ Cardinality(Issued) > max_burst
  /\ \A c, d \in Issued : caller[c].issued_at = caller[d].issued_at
  /\ \A c \in Issued : caller[c].pc = "granted"

\* the ticks from the start of the burst to its last grant
BurstTicks == Max({caller[c].granted_at - caller[c].issued_at : c \in Issued})

\* C11: when K > B acquire calls are issued concurrently on a full bucket of rate R
\* and burst B, the last of them gets its token no earlier than (K - B) / R seconds
\* after the start.
C11_BurstTakesTime ==
  ConcurrentBurst =>
    BurstTicks * rate_per_second >= (Cardinality(Issued) - max_burst) * TicksPerSecond

\* three concurrent calls on a bucket of burst 1 finished in exactly (K - B) / R seconds
C11_Witness ==
  /\ ConcurrentBurst
  /\ Issued = Callers
  /\ max_burst = 1
  /\ BurstTicks * rate_per_second = (NumCallers - max_burst) * TicksPerSecond

\* C20: when a caller of acquire is cancelled while it sleeps for a token, its wait
\* ends, the bucket's lock is released and no token is taken from the bucket.
C20_CancelReleasesLockKeepsTokens ==
  [][\A c \in Callers :
       (caller[c].pc = "sleeping" /\ caller'[c].pc = "cancelled")
         => (lock' = 0 /\ tokens' = tokens /\ caller'[c].spent = 0)]_vars

\* a caller was cancelled in its sleep, and a caller that came no earlier and had to
\* wait has been granted its token since
C20_Witness ==
  \E c, d \in Callers :
    /\ caller[c].pc = "cancelled"
    /\ caller[c].wake_at > 0
    /\ caller[d].pc = "granted"
    /\ caller[d].issued_at >= caller[c].issued_at
    /\ caller[d].granted_at > caller[d].issued_at


----------------------------------------------------------------------------
(* scripts/smart_address_generator.py, scripts/search_and_extract_addresses.py: *)
(* the batch loop over the selected companies, numbered 1..Len(outcome)         *)

MaxBatchSize == 3

\* num_batches = (total_companies + self.batch_size - 1) // self.batch_size
Smart_num_batches(total, size) == (total + size - 1) \div size

\* companies_to_process[i * batch_size : min((i + 1) * batch_size, total_companies)]
Smart_batch_companies(total, size, i) == (i * size + 1)..Min({(i + 1) * size, total})

\* range(0, len(companies), batch_size)
Search_batch_starts(total, size) == {k \in 0..(total - 1) : k % size = 0}

\* batches[i] of [companies[k:k + batch_size] for k in range(0, len(companies), batch_size)]
Search_batch(total, size, i) ==
  {c \in 1..total : i * size < c /\ c <= i * size + size /\ i * size \in Search_batch_starts(total, size)}

\* the number of batches of the driver's loop
NumBatches ==
  IF driver = "smart"
  THEN Smart_num_batches(Len(outcome), batch_size)
  ELSE Cardinality(Search_batch_starts(Len(outcome), batch_size))

\* the companies of the i-th batch of the driver's loop
BatchOfLoop(i) ==
  IF driver = "smart"
  THEN Smart_batch_companies(Len(outcome), batch_size, i)
  ELSE Search_batch(Len(outcome), batch_size, i)

Resolved(c) == outcome[c] \in {"success", "failed"}

\* the driver has its companies and enters its loop
InitDriver ==
  /\ driver \in {"smart", "search"}
  /\ batch_size \in 1..MaxBatchSize
  /\ \E total \in 1..MaxCompanies :
       /\ outcome = [c \in 1..total |-> "none"]
       /\ batch_of = [c \in 1..total |-> -1]
  /\ batch_index = 0
  /\ slept = {}
  /\ driver_pc = "submit"
  /\ PipelineIdle
  /\ HandlerIdle
  /\ BatchIdle
  /\ LimiterIdle

\* executor.submit for every company of the batch / the coroutines handed to gather
SubmitBatch ==
  /\ driver_pc = "submit"
  /\ outcome' = [c \in DOMAIN outcome |->
                   IF c \in BatchOfLoop(batch_index) THEN "running" ELSE outcome[c]]
  /\ batch_of' = [c \in DOMAIN batch_of |->
                    IF c \in BatchOfLoop(batch_index) THEN batch_index ELSE batch_of[c]]
  /\ driver_pc' = "collect"
  /\ UNCHANGED << driver, batch_size, batch_index, slept >>
  /\ UNCHANGED << pipelineVars, handlerVars, batchVars, limiterVars >>

\* one company's processing returns True or False
CompanyResolves(c) ==
  /\ driver_pc = "collect"
  /\ c \in DOMAIN outcome
  /\ outcome[c] = "running"
  /\ \E result \in {"success", "failed"} : outcome' = [outcome EXCEPT ![c] = result]
  /\ UNCHANGED << driver, batch_size, batch_of, batch_index, slept, driver_pc >>
  /\ UNCHANGED << pipelineVars, handlerVars, batchVars, limiterVars >>

\* the end of the loop body, had the driver slept after every batch
BatchCompleted_always_sleeps ==
  /\ driver_pc = "collect"
  /\ \A c \in BatchOfLoop(batch_index) : Resolved(c)
  /\ driver_pc' = "sleep"
  /\ UNCHANGED << driver, batch_size, outcome, batch_of, batch_index, slept >>
  /\ UNCHANGED << pipelineVars, handlerVars, batchVars, limiterVars >>

\* as_completed(futures) is exhausted / gather returned: the driver sleeps when
\* i < num_batches - 1 (i + 1 < len(batches)) and leaves the loop otherwise
BatchCompleted ==
  /\ driver_pc = "collect"
  /\ \A c \in BatchOfLoop(batch_index) : Resolved(c)
  /\ driver_pc' = IF batch_index < NumBatches - 1 THEN "sleep" ELSE "done"
  /\ UNCHANGED << driver, batch_size, outcome, batch_of, batch_index, slept >>
  /\ UNCHANGED << pipelineVars, handlerVars, batchVars, limiterVars >>

\* await asyncio.sleep(delay) is over: the next iteration of the loop
InterBatchSleep ==
  /\ driver_pc = "sleep"
  /\ batch_index < MaxCompanies
  /\ slept' = slept \cup {batch_index}
  /\ batch_index' = batch_index + 1
  /\ driver_pc' = "submit"
  /\ UNCHANGED << driver, batch_size, outcome, batch_of >>
  /\ UNCHANGED << pipelineVars, handlerVars, batchVars, limiterVars >>

NextDriver ==
  \/ SubmitBatch
  \/ \E c \in 1..MaxCompanies : CompanyResolves(c)
  \/ BatchCompleted
  \/ InterBatchSleep

SpecDriver == InitDriver /\ [][NextDriver]_vars

\* the companies submitted so far
Submitted == {c \in DOMAIN batch_of : batch_of[c] >= 0}

\* the index of the last of the consecutive batches of at most batch_size companies
LastBatch == (Len(outcome) - 1) \div batch_size

\* C16: the driver cuts the selected companies into consecutive batches of at most
\* batchSize companies, every company in exactly one batch; it starts batch i+1 only
\* when every company of batch i has a resolved outcome; it sleeps the inter-batch
\* delay between consecutive batches and not after the last one.
C16_BatchesInTurn ==
  /\ \A c \in Submitted : batch_of[c] = (c - 1) \div batch_size
  /\ \A c, d \in Submitted : batch_of[c] < batch_of[d] => Resolved(c)
  /\ \A d \in Submitted : batch_of[d] >= 1 => (batch_of[d] - 1) \in slept
  /\ \A i \in slept : i < LastBatch
  /\ driver_pc = "done" =>
       /\ Submitted = DOMAIN outcome
       /\ \A c \in DOMAIN outcome : Resolved(c)
       /\ slept = 0..(LastBatch - 1)

\* the driver is through three batches, the last of them a short one
C16_Witness ==
  /\ driver_pc = "done"
  /\ LastBatch = 2
  /\ Len(outcome) % batch_size # 0
  /\ \E c \in DOMAIN outcome : outcome[c] = "failed"


----------------------------------------------------------------------------
(* RateLimiter: order of service, and the bucket's counts *)

Waiting(c) == caller[c].pc \in {"queued", "sleeping"}

\* the call has its token, or its caller gave it up
Served(c) == caller[c].pc \in {"granted", "cancelled"}

\* no call has its token while a call that arrived before it still waits
NotOvertaken ==
  \A c, d \in Callers :
    (caller[c].ticket < caller[d].ticket /\ Waiting(c)) => caller[d].pc # "granted"

\* C22: with a positive refill rate no acquire call starves: a call that waits is
\* in the end granted its token (or given up by its caller), never ends in an error,
\* and is not overtaken by a call that arrived at the bucket after it.
C22_NoStarvationInOrder ==
  /\ [](NotOvertaken)
  /\ \A c \in Callers : Waiting(c) ~> Served(c)

\* all callers have their token, the last to arrive after a wait and as the last
C22_Witness ==
  /\ \A c \in Callers : caller[c].pc = "granted"
  /\ \E d \in Callers :
       /\ caller[d].ticket = NumCallers
       /\ caller[d].granted_at > caller[d].issued_at
       /\ \A c \in Callers : caller[c].granted_at <= caller[d].granted_at


\* 0 <= self.tokens <= self.max_burst
TokensInRange == 0 <= tokens /\ tokens <= max_burst * TokenUnit

\* C26: in every reachable state of a RateLimiter, under any interleaving of acquire
\* calls, 0 <= tokens <= max_burst, and each completed acquire lowers the token
\* count, as refilled at that moment, by exactly one.
C26_TokensInRangeOnePerAcquire ==
  /\ [](TokensInRange)
  /\ [][\A c \in Callers :
          (caller[c].pc # "granted" /\ caller'[c].pc = "granted")
            => (tokens' = Refilled - TokenUnit /\ caller'[c].spent = 1)]_vars

\* a call was granted after a wait and left the bucket with less than one token
C26_Witness ==
  /\ tokens < TokenUnit
  /\ \E c \in Callers :
       /\ caller[c].pc = "granted"
       /\ caller[c].granted_at > caller[c].issued_at
       /\ caller[c].granted_at = last_refill_time


----------------------------------------------------------------------------
(* SpecCandidates: phase_a_search and phase_b_extract over longer search answers *)

\* the longest list of search results an answer carries
MaxResults == 7

\* https://a.jp/1 ... https://a.jp/7
Page(n) == SiteA \o <<"/", <<"1", "2", "3", "4", "5", "6", "7">>[n]>>

\* a result that matches no keyword
Plain(n) == [url |-> Page(n), title |-> <<"x">>]

\* a result whose title says News
Newsy(n) == [url |-> Page(n), title |-> <<"N", "e", "w", "s">>]

\* results 1..n, the last of them a news page when n is MaxResults
Results(n) == [k \in 1..n |-> IF k = MaxResults THEN Newsy(k) ELSE Plain(k)]

CandidateAnswers ==
  { [kind |-> "error", results |-> <<>>],
    [kind |-> "ok", results |-> <<>>],
    [kind |-> "ok", results |-> << Plain(1), Plain(1), Plain(2) >>],
    [kind |-> "ok", results |-> << Newsy(1), Plain(1) >>] }
  \cup {[kind |-> "ok", results |-> Results(n)] : n \in (MaxResults - 1)..MaxResults}

\* phase_a_search(company_data, pplx_client) over the longer answers
SearchCandidates ==
  /\ stage = "start"
  /\ \E answer \in CandidateAnswers :
       /\ search' = answer
       /\ phase_a_result' = phase_a_search(company, answer)
  /\ stage' = "searched"
  /\ UNCHANGED << company, extract_calls, phase_b_result, llm, news_keywords, phase_c_output >>
  /\ UNCHANGED << handlerVars, batchVars, limiterVars, driverVars >>

NextCandidates ==
  \/ SearchCandidates
  \/ PhaseBNoUrls
  \/ PhaseBExtract

SpecCandidates == InitPipeline /\ [][NextCandidates]_vars

Categories == DOMAIN NoUrls

\* C24: in the CandidateURLSet phase_a_search returns no URL appears in more than
\* one category (every result goes to its first matching category, or to about),
\* and each category holds at most 5 URLs.
C24_CategoriesDisjointAtMostFive ==
  stage # "start" =>
    /\ \A c1, c2 \in Categories :
         c1 # c2 => SeqRange(phase_a_result[c1]) \cap SeqRange(phase_a_result[c2]) = {}
    /\ \A c \in Categories : Len(phase_a_result[c]) <= 5

\* C25: phase_b_extract calls the ExtractionProvider at most once per company, with
\* a URL list without duplicates, of at most 5 entries, all of them candidates; with
\* an empty candidate set it makes no call and returns empty extracted fields.
C25_OneExtractCallOfFiveDistinct ==
  /\ Len(extract_calls) <= 1
  /\ \A i \in 1..Len(extract_calls) :
       /\ Distinct(extract_calls[i])
       /\ Len(extract_calls[i]) <= 5
       /\ SeqRange(extract_calls[i]) \subseteq SeqRange(AllUrls(phase_a_result))
  /\ (stage = "extracted" /\ AllUrls(phase_a_result) = <<>>) =>
       (extract_calls = <<>> /\ phase_b_result = EmptyPhaseB)

\* six candidate URLs in two categories, five of them sent to the provider
C25_Witness ==
  /\ stage = "extracted"
  /\ Cardinality(SeqRange(AllUrls(phase_a_result))) = 6
  /\ Len(extract_calls) = 1
  /\ Len(extract_calls[1]) = 5

====
